---- MODULE Spec2Model ----
(***************************************************************************)
(* MindPebbles: the insight pipeline (App.handleRecordingComplete), the    *)
(* identity-scoped entry store (App load/save effects), the conversation   *)
(* orchestrator (ConversationMode) and the persona creation workflow       *)
(* (PersonaCreator), as state machines translated from the sources.        *)
(***************************************************************************)
EXTENDS Integers, Sequences, FiniteSets, TLC

VARIABLES
    \* ---- App (src/src/App.tsx) ----
    user,             \* useUser().user: a Clerk user id, or NoUser
    entries,          \* useState<JournalEntry[]>
    selectedEntry,    \* useState<JournalEntry | null>: None or Some(entry)
    isProcessing,     \* useState(false)
    selectedVoiceId,  \* useState(AVAILABLE_VOICES[0].id)
    localStorage,     \* window.localStorage: key -> None or Some(parsed value)
    \* ---- Recorder (src/src/App.tsx:232-401) ----
    isRecording,      \* Recorder's useState(false)
    \* ---- one invocation of handleRecordingComplete ----
    pc,               \* the await the invocation is suspended at
    frame,            \* its closure and locals
    calls,            \* adapter requests (fetch) issued by the last invocation
    alertMsg,         \* the last window.alert shown
    nextId,           \* source of crypto.randomUUID() / new Date()
    \* ---- InsightCard (src/src/components/InsightCard.tsx) ----
    showConversation, \* useState(false)
    \* ---- ConversationMode (src/src/components/ConversationMode.tsx) ----
    conversationHistory, \* useState<ConversationTurn[]>(initialHistory)
    cmIsRecording,    \* ConversationMode's isRecording
    cmIsProcessing,   \* ConversationMode's isProcessing
    cmClosure,        \* entry and conversationHistory held by mediaRecorder.onstop
    rounds,           \* the invocations of handleUserMessage that are in flight
    okRounds,         \* per entry id, the rounds that completed (not program state)
    roundsStarted,    \* the invocations of handleUserMessage so far (not program state)
    \* ---- App with custom personas (src/unnamed/part_002) ----
    customPersonas,   \* useState<Persona[]>
    selectedPersona,  \* useState<Persona | null>
    showPersonaCreator, \* useState(false)
    personaStore,     \* localStorage['mindpebbles_personas']: None or Some(parsed value)
    \* ---- PersonaCreator (src/src/components/PersonaCreator.tsx) ----
    prompt,           \* useState('')
    isGenerating,     \* useState(false)
    currentStep,      \* useState<'input' | 'preview' | 'complete'>
    generatedPersona, \* None or Some(persona fields)
    generatedVoice,   \* None or Some([voiceId, previewAudioUrl])
    error,            \* None or Some(message)
    pcGen,            \* the await handleGenerate / handleConfirm is suspended at
    genFrame,         \* the closure and locals of that invocation
    genRuns,          \* generation requests issued so far (names the preview voices)
    voiceLibrary,     \* the permanent voices the voice service has created
    createdCalls,     \* onPersonaCreated calls of the mounted PersonaCreator
    discarded,        \* the preview voices handleRegenerate dropped (not program state)
    \* ---- Subscription utilities (src/src/utils/stripe.ts) ----
    premiumStorage,   \* localStorage under the premium keys: None or Some(parsed value)
    clock,            \* new Date(), in months
    gateOp            \* the last call into the subscription utilities (not program state)

appVars == <<user, entries, selectedEntry, isProcessing, selectedVoiceId,
             localStorage, isRecording, pc, frame, calls, alertMsg, nextId>>

cmVars == <<showConversation, conversationHistory, cmIsRecording, cmIsProcessing,
            cmClosure, rounds>>

ghostVars == <<okRounds, roundsStarted>>

creatorVars == <<prompt, isGenerating, currentStep, generatedPersona, generatedVoice,
                 error, pcGen, genFrame>>

personaVars == <<customPersonas, selectedPersona, showPersonaCreator, personaStore,
                 creatorVars, genRuns, voiceLibrary, createdCalls, discarded>>

gateVars == <<premiumStorage, clock, gateOp>>

vars == <<appVars, cmVars, ghostVars, personaVars, gateVars>>

\* ---------------------------------------------------------------- bounds
\* Entries one model run creates (crypto.randomUUID() is drawn at most this often).
MaxEntries == 2
\* Invocations of handleUserMessage one model run starts.
MaxRounds == 3
\* Generation requests (handleGenerate runs that reach the service) of one model run.
MaxGenerations == 2
\* The last instant of the clock, in months.
MaxTime == 2
\* The largest entry count the subscription utilities are asked about.
MaxCount == 4

\* ------------------------------------------------------------ data model
\* A JavaScript null / undefined, and a present value.
None == <<>>
Some(x) == <<x>>

\* useUser().user is null for a guest (and while Clerk loads).
NoUser == "null"
UserIds == {"user_1"}
Identities == UserIds \cup {NoUser}

\* AVAILABLE_VOICES of the voice selector.
AVAILABLE_VOICES == <<"pNInz6obpgDQGcFmaJgB", "EXAVITQu4vr4xnSDxMaL">>
VoiceIds == {AVAILABLE_VOICES[i] : i \in DOMAIN AVAILABLE_VOICES}

\* VOICE_PERSONAS: the built-in personas by voice id.
VOICE_PERSONAS ==
    [id \in {"pNInz6obpgDQGcFmaJgB", "EXAVITQu4vr4xnSDxMaL", "FRCFNaM8GFkELyft3w7J"} |->
        IF id = "pNInz6obpgDQGcFmaJgB"
        THEN [name |-> Some("Adam"), systemPrompt |-> Some("You are Adam"),
              feedbackStyle |-> Some("Calm, thoughtful, and grounded with practical wisdom")]
        ELSE IF id = "EXAVITQu4vr4xnSDxMaL"
        THEN [name |-> Some("Sarah"), systemPrompt |-> Some("You are Sarah"),
              feedbackStyle |-> Some("Gentle, compassionate, and emotionally attuned")]
        ELSE [name |-> Some("Smoky Lady"), systemPrompt |-> Some("Her voice carries a husky warmth"),
              feedbackStyle |-> Some("Concise, steady observations that cut to the practical core")]]

\* Sizes of the recorded audio blob.
BlobSizes == {0, 1}

\* A transcribeAudio without its size check.
BlobIsEmptyNever(size) == FALSE

\* transcribeAudio: if (audioBlob.size === 0) throw.
BlobIsEmpty(size) == size = 0

\* What the speech-to-text service returns as data.text.
Transcripts == {"I feel overwhelmed at work"}

Emo(n, s) == [name |-> n, score |-> s]
Marker(n, l) == [name |-> n, level |-> l, description |-> "d"]

\* Objects the analysis service can return as the message content. A field the
\* object omits is None (undefined once parsed), a present field is Some(value).
AnalysisObjects ==
    { [summary |-> Some("s"),
       emotions |-> Some(<<Emo("stress", 80), Emo("hope", 30)>>),
       topics |-> Some(<<"work", "rest">>),
       psychMarkers |-> Some(<<Marker("rumination", "low")>>),
       feedbackText |-> Some("f")],
      [summary |-> Some("s"),
       emotions |-> Some(<<Emo("stress", 80), Emo("hope", 30), Emo("joy", 10),
                           Emo("fear", 100), Emo("stress", 0)>>),
       topics |-> Some(<<"work">>),
       psychMarkers |-> Some(<<>>),
       feedbackText |-> Some("f")],
      [summary |-> None,
       emotions |-> Some(<<Emo("stress", 80), Emo("hope", 30)>>),
       topics |-> Some(<<"work", "rest">>),
       psychMarkers |-> Some(<<Marker("rumination", "low")>>),
       feedbackText |-> Some("f")] }

\* HTTP responses of the analysis service: the status, whether the content is
\* JSON text at all, and the object it holds.
AnalysisResponses ==
    {[ok |-> FALSE, json |-> FALSE, body |-> None],
     [ok |-> TRUE, json |-> FALSE, body |-> None]}
    \cup {[ok |-> TRUE, json |-> TRUE, body |-> Some(a)] : a \in AnalysisObjects}

\* getStorageKey: `mindpebbles_entries_${user.id}` or 'mindpebbles_entries_guest'.
getStorageKey(u) ==
    IF u # NoUser THEN <<"mindpebbles_entries_", u>>
    ELSE <<"mindpebbles_entries_", "guest">>

StorageKeys == {getStorageKey(u) : u \in Identities}

\* The save effect of App: entries are written under the current user's key
\* whenever the list is non-empty.
SaveEffect(store, u, es) ==
    IF Len(es) > 0
    THEN [store EXCEPT ![getStorageKey(u)] = Some(es)]
    ELSE store

\* The load effect of App, given localStorage.getItem(storageKey): the new
\* entries list and selected entry.
LoadEffect(stored, sel) ==
    IF stored # None
    THEN [entries |-> stored[1],
          selectedEntry |-> IF Len(stored[1]) > 0 THEN Some(stored[1][1]) ELSE sel]
    ELSE [entries |-> <<>>, selectedEntry |-> None]

\* The locals of an invocation that is not running.
NoFrame == [audioBlob |-> None, voiceId |-> "", transcript |-> "", analysis |-> None]

\* The locals of an invocation that has ended: the blob it was called with stays
\* on record.
EndFrame(f) == [NoFrame EXCEPT !.audioBlob = f.audioBlob]

\* InsightCard is rendered by App only when !isProcessing && selectedEntry.
InsightCardMounted(processing, sel) == ~processing /\ sel # None

\* What a change of isProcessing or selectedEntry does to the component tree: when
\* the InsightCard is no longer rendered its state and that of ConversationMode
\* are dropped, and the rounds that are in flight go on without a component.
Rerender ==
    IF InsightCardMounted(isProcessing', selectedEntry')
    THEN UNCHANGED cmVars
    ELSE /\ showConversation' = FALSE
         /\ conversationHistory' = <<>>
         /\ cmIsRecording' = FALSE
         /\ cmIsProcessing' = FALSE
         /\ cmClosure' = None
         /\ rounds' = [i \in DOMAIN rounds |-> [rounds[i] EXCEPT !.live = FALSE]]

\* Descriptions typed into the persona prompt, as sequences of characters.
Prompts == {<<>>, <<" ">>, <<"z">>, <<" ", "z", " ">>}

\* String.prototype.trim on a sequence of characters.
RECURSIVE TrimLeft(_)
TrimLeft(p) == IF p # <<>> /\ Head(p) = " " THEN TrimLeft(Tail(p)) ELSE p

RECURSIVE TrimRight(_)
TrimRight(p) ==
    IF p # <<>> /\ p[Len(p)] = " " THEN TrimRight(SubSeq(p, 1, Len(p) - 1)) ELSE p

Trim(p) == TrimRight(TrimLeft(p))

\* Objects the persona-generation service can return for generation run k: a field
\* the object omits is None. run is not a field of the program: it names the
\* generation run the object came from.
PersonaObjects(k) ==
    { [name |-> Some("Sage"), personality |-> Some("calm"), systemPrompt |-> Some("sp"),
       feedbackStyle |-> Some("fs"), run |-> k],
      [name |-> Some("Sage"), personality |-> Some("calm"), systemPrompt |-> Some("sp"),
       feedbackStyle |-> None, run |-> k] }

\* Responses of the persona-generation service.
PersonaResponses(k) ==
    {[ok |-> FALSE, json |-> FALSE, body |-> None],
     [ok |-> TRUE, json |-> FALSE, body |-> None]}
    \cup {[ok |-> TRUE, json |-> TRUE, body |-> Some(o)] : o \in PersonaObjects(k)}

\* Responses of the voice-design service: a failed status, no previews, a preview
\* without audio data, or a preview.
VoiceResponses == {"error", "no previews", "no audio", "preview"}

\* The generated_voice_id of the preview designed in generation run k, and the
\* voice_id of the permanent voice made from a preview.
PreviewVoiceId(k) == <<"preview", k>>
PermanentVoiceId(previewId) == <<"voice", previewId[2]>>

\* FREE_ENTRY_LIMIT of the subscription utilities.
FREE_ENTRY_LIMIT == 3

\* The months parameter of activatePremium when the caller gives none.
DefaultMonths == 12

\* Durations activatePremium is called with; 0 gives an expiry that is not in the
\* future.
Months == {0, 1, DefaultMonths}

\* getPremiumStorageKey: `mindpebbles_premium_${userId}` or
\* 'mindpebbles_premium_guest'.
getPremiumStorageKey(userId) ==
    IF userId # NoUser THEN <<"mindpebbles_premium_", userId>>
    ELSE <<"mindpebbles_premium_", "guest">>

\* The key checkExpiredPremium reads: 'mindpebbles_premium'.
LegacyPremiumKey == <<"mindpebbles_premium", "">>

\* The identities the subscription utilities are called for: the guest and two
\* signed-in users.
GateIdentities == Identities \cup {"user_2"}

PremiumKeys == {getPremiumStorageKey(u) : u \in GateIdentities} \cup {LegacyPremiumKey}

\* ------------------------------------------------------------------ Init
\* The app after its first mount on an empty localStorage: the load effect found
\* nothing, the save effect saw an empty list.
AppInit ==
    /\ user = NoUser
    /\ entries = <<>>
    /\ selectedEntry = None
    /\ isProcessing = FALSE
    /\ selectedVoiceId = AVAILABLE_VOICES[1]
    /\ localStorage = [k \in StorageKeys |-> None]
    /\ isRecording = FALSE
    /\ pc = "idle"
    /\ frame = NoFrame
    /\ calls = <<>>
    /\ alertMsg = ""
    /\ nextId = 1

\* No conversation mode is open.
CmInit ==
    /\ showConversation = FALSE
    /\ conversationHistory = <<>>
    /\ cmIsRecording = FALSE
    /\ cmIsProcessing = FALSE
    /\ cmClosure = None
    /\ rounds = <<>>
    /\ okRounds = [id \in 1..MaxEntries |-> 0]
    /\ roundsStarted = 0

\* The state of a PersonaCreator as it mounts.
CreatorInit ==
    /\ prompt = <<>>
    /\ isGenerating = FALSE
    /\ currentStep = "input"
    /\ generatedPersona = None
    /\ generatedVoice = None
    /\ error = None
    /\ pcGen = "idle"
    /\ genFrame = None

\* The persona app after its first mount on an empty localStorage; no creator is
\* shown.
PersonaInit ==
    /\ customPersonas = <<>>
    /\ selectedPersona = None
    /\ showPersonaCreator = FALSE
    /\ personaStore = None
    /\ CreatorInit
    /\ genRuns = 0
    /\ voiceLibrary = {}
    /\ createdCalls = 0
    /\ discarded = {}

\* -------------------------------------------------------------- Recorder
\* The voice selector's onChange (disabled while isProcessing).
SelectVoice(v) ==
    /\ ~isProcessing
    /\ v # selectedVoiceId
    /\ selectedVoiceId' = v
    /\ UNCHANGED <<user, entries, selectedEntry, isProcessing, localStorage,
                   isRecording, pc, frame, calls, alertMsg, nextId>>
    /\ UNCHANGED <<cmVars, ghostVars>>

\* A Recorder whose record button is not disabled while isProcessing.
StartRecordingWhileProcessing ==
    /\ ~isRecording
    /\ nextId <= MaxEntries
    /\ isRecording' = TRUE
    /\ frame' = [frame EXCEPT !.voiceId = selectedVoiceId]
    /\ UNCHANGED <<calls, alertMsg>>
    /\ UNCHANGED <<user, entries, selectedEntry, isProcessing, selectedVoiceId,
                   localStorage, pc, nextId>>
    /\ UNCHANGED <<cmVars, ghostVars>>

\* Recorder.startRecording: the record button is disabled while isProcessing.
\* mediaRecorder.onstop keeps the onRecordingComplete of this render, and with it
\* the selectedVoiceId of this render.
StartRecording ==
    /\ ~isProcessing
    /\ ~isRecording
    /\ nextId <= MaxEntries
    /\ isRecording' = TRUE
    /\ frame' = [NoFrame EXCEPT !.voiceId = selectedVoiceId]
    /\ calls' = <<>>
    /\ alertMsg' = ""
    /\ UNCHANGED <<user, entries, selectedEntry, isProcessing, selectedVoiceId,
                   localStorage, pc, nextId>>
    /\ UNCHANGED <<cmVars, ghostVars>>

\* A catch block that runs the stages again.
PipelineFailRetries(msg, f) ==
    /\ alertMsg' = msg
    /\ isProcessing' = TRUE
    /\ pc' = "transcribing"
    /\ frame' = f
    /\ UNCHANGED <<user, entries, selectedEntry, selectedVoiceId, localStorage,
                   nextId>>

\* A catch block that also drops the selection.
PipelineFailClearsSelection(msg, f) ==
    /\ alertMsg' = msg
    /\ isProcessing' = FALSE
    /\ pc' = "idle"
    /\ frame' = EndFrame(f)
    /\ selectedEntry' = None
    /\ UNCHANGED <<user, entries, selectedVoiceId, localStorage, nextId>>

\* The catch and finally blocks of handleRecordingComplete, for an invocation
\* with locals f.
PipelineFail(msg, f) ==
    /\ alertMsg' = msg
    /\ isProcessing' = FALSE
    /\ pc' = "idle"
    /\ frame' = EndFrame(f)
    /\ UNCHANGED <<user, entries, selectedEntry, selectedVoiceId, localStorage,
                   nextId>>

\* Recorder.stopRecording, the recorder's onstop and the start of
\* handleRecordingComplete(audioBlob) up to its first await. transcribeAudio
\* throws on an empty blob before it issues its request.
StopRecording(size) ==
    /\ isRecording
    /\ ~isProcessing
    /\ pc = "idle"
    /\ isRecording' = FALSE
    /\ UNCHANGED ghostVars
    /\ IF BlobIsEmpty(size)
       THEN /\ UNCHANGED calls
            /\ PipelineFail("Audio blob is empty", [frame EXCEPT !.audioBlob = Some(size)])
       ELSE /\ isProcessing' = TRUE
            /\ pc' = "transcribing"
            /\ frame' = [frame EXCEPT !.audioBlob = Some(size)]
            /\ calls' = Append(calls, "speech-to-text")
            /\ UNCHANGED <<user, entries, selectedEntry, selectedVoiceId,
                           localStorage, alertMsg, nextId>>
    /\ Rerender

\* transcribeAudio resumes with the response of the speech-to-text service;
\* on success analyzeTranscript issues its request.
TranscribeDone(ok, text) ==
    /\ pc = "transcribing"
    /\ UNCHANGED <<isRecording, ghostVars>>
    /\ IF ~ok
       THEN /\ PipelineFail("STT failed", frame)
            /\ UNCHANGED calls
       ELSE /\ pc' = "analyzing"
            /\ frame' = [frame EXCEPT !.transcript = text]
            /\ calls' = Append(calls, "analysis")
            /\ UNCHANGED <<user, entries, selectedEntry, isProcessing,
                           selectedVoiceId, localStorage, alertMsg, nextId>>
    /\ Rerender

\* analyzeTranscript resumes with the response of the analysis service: a failed
\* status throws, content that is no JSON makes JSON.parse throw, and any parsed
\* object is returned as it is; generateSpeech then issues its request.
AnalyzeDone(r) ==
    /\ pc = "analyzing"
    /\ UNCHANGED <<isRecording, ghostVars>>
    /\ IF ~r.ok
       THEN /\ PipelineFail("OpenAI analysis failed", frame)
            /\ UNCHANGED calls
       ELSE IF ~r.json
       THEN /\ PipelineFail("SyntaxError", frame)
            /\ UNCHANGED calls
       ELSE /\ pc' = "synthesizing"
            /\ frame' = [frame EXCEPT !.analysis = r.body]
            /\ calls' = Append(calls, "text-to-speech")
            /\ UNCHANGED <<user, entries, selectedEntry, isProcessing,
                           selectedVoiceId, localStorage, alertMsg, nextId>>
    /\ Rerender

\* The JournalEntry assembled by handleRecordingComplete. createdBy is not a field
\* of the program: it records the identity that was active when the entry was
\* created.
NewEntry(id, f, audioUrl, u) ==
    [id |-> id,
     createdAt |-> id,
     transcript |-> f.transcript,
     summary |-> f.analysis[1].summary,
     emotions |-> f.analysis[1].emotions,
     topics |-> f.analysis[1].topics,
     psychMarkers |-> f.analysis[1].psychMarkers,
     feedbackText |-> f.analysis[1].feedbackText,
     feedbackAudioUrl |-> audioUrl,
     voiceId |-> f.voiceId,
     conversation |-> None,
     createdBy |-> u]

\* A handleRecordingComplete that asks the entitlement gate before it commits.
SynthesizeDoneGated(ok) ==
    /\ pc = "synthesizing"
    /\ UNCHANGED <<isRecording, ghostVars>>
    /\ LET premiumStatus == premiumStorage[getPremiumStorageKey(user)]
           premium == /\ premiumStatus # None
                      /\ premiumStatus[1].isPremium
                      /\ premiumStatus[1].expiresAt > clock
       IN IF ~ok
          THEN /\ PipelineFail("TTS failed", frame)
               /\ UNCHANGED calls
          ELSE IF ~premium /\ Len(entries) >= FREE_ENTRY_LIMIT
          THEN /\ PipelineFail("Entitlement exceeded", frame)
               /\ UNCHANGED calls
          ELSE LET newEntry == NewEntry(nextId, frame, "blob:tts", user)
               IN /\ entries' = <<newEntry>> \o entries
                  /\ selectedEntry' = Some(newEntry)
                  /\ localStorage' = SaveEffect(localStorage, user, entries')
                  /\ nextId' = nextId + 1
                  /\ isProcessing' = FALSE
                  /\ pc' = "idle"
                  /\ frame' = EndFrame(frame)
                  /\ UNCHANGED <<user, selectedVoiceId, calls, alertMsg>>
    /\ Rerender

\* A handleRecordingComplete that puts the new entry at the end of the list.
SynthesizeDoneAppends(ok) ==
    /\ pc = "synthesizing"
    /\ UNCHANGED <<isRecording, ghostVars>>
    /\ IF ~ok
       THEN /\ PipelineFail("TTS failed", frame)
            /\ UNCHANGED calls
       ELSE LET newEntry == NewEntry(nextId, frame, "blob:tts", user)
            IN /\ entries' = Append(entries, newEntry)
               /\ selectedEntry' = Some(newEntry)
               /\ localStorage' = SaveEffect(localStorage, user, entries')
               /\ nextId' = nextId + 1
               /\ isProcessing' = FALSE
               /\ pc' = "idle"
               /\ frame' = EndFrame(frame)
               /\ UNCHANGED <<user, selectedVoiceId, calls, alertMsg>>
    /\ Rerender

\* generateSpeech resumes with the response of the text-to-speech service; on
\* success the entry is assembled, prepended and selected, and the save effect
\* writes the list under the current user's key.
SynthesizeDone(ok) ==
    /\ pc = "synthesizing"
    /\ UNCHANGED <<isRecording, ghostVars>>
    /\ IF ~ok
       THEN /\ PipelineFail("TTS failed", frame)
            /\ UNCHANGED calls
       ELSE LET newEntry == NewEntry(nextId, frame, "blob:tts", user)
            IN /\ entries' = <<newEntry>> \o entries
               /\ selectedEntry' = Some(newEntry)
               /\ localStorage' = SaveEffect(localStorage, user, entries')
               /\ nextId' = nextId + 1
               /\ isProcessing' = FALSE
               /\ pc' = "idle"
               /\ frame' = EndFrame(frame)
               /\ UNCHANGED <<user, selectedVoiceId, calls, alertMsg>>
    /\ Rerender

\* ------------------------------------------------------------- Identity
\* useUser() returns another user (Clerk finished loading, sign-in, sign-out).
\* In the commit that sees the new user the load effect reads the new key and
\* queues its state updates, then the save effect runs with the entries of that
\* render (the previous identity's); the re-render with the loaded entries runs
\* the save effect again.
UserChange(u) ==
    /\ u # user
    /\ user' = u
    /\ LET loaded == LoadEffect(localStorage[getStorageKey(u)], selectedEntry)
           stale == SaveEffect(localStorage, u, entries)
       IN /\ entries' = loaded.entries
          /\ selectedEntry' = loaded.selectedEntry
          /\ localStorage' = SaveEffect(stale, u, loaded.entries)
    /\ UNCHANGED <<isProcessing, selectedVoiceId, isRecording, pc, frame, calls,
                   alertMsg, nextId, ghostVars>>
    /\ Rerender

\* The page is loaded again: all component state is rebuilt, a running invocation
\* is lost, Clerk has not loaded yet, and the mount effects run on the guest key.
Reload ==
    /\ user' = NoUser
    /\ LET loaded == LoadEffect(localStorage[getStorageKey(NoUser)], None)
       IN /\ entries' = loaded.entries
          /\ selectedEntry' = loaded.selectedEntry
          /\ localStorage' = SaveEffect(localStorage, NoUser, loaded.entries)
    /\ isProcessing' = FALSE
    /\ selectedVoiceId' = AVAILABLE_VOICES[1]
    /\ isRecording' = FALSE
    /\ pc' = "idle"
    /\ frame' = NoFrame
    /\ calls' = <<>>
    /\ alertMsg' = ""
    /\ UNCHANGED <<nextId, ghostVars>>
    /\ showConversation' = FALSE
    /\ conversationHistory' = <<>>
    /\ cmIsRecording' = FALSE
    /\ cmIsProcessing' = FALSE
    /\ cmClosure' = None
    /\ rounds' = <<>>

\* handleSelectEntry: a click on an entry of the timeline.
handleSelectEntry(id) ==
    /\ \E i \in DOMAIN entries : entries[i].id = id
    /\ LET i == CHOOSE i \in DOMAIN entries :
                  /\ entries[i].id = id
                  /\ \A j \in DOMAIN entries : entries[j].id = id => i <= j
       IN selectedEntry' = Some(entries[i])
    /\ selectedEntry' # selectedEntry
    /\ UNCHANGED <<user, entries, isProcessing, selectedVoiceId, localStorage,
                   isRecording, pc, frame, calls, alertMsg, nextId, ghostVars>>
    /\ Rerender

\* ----------------------------------------------------- ConversationMode
\* A handleUpdateEntry that puts an entry the list does not hold at its front.
ReplaceEntryOrAdd(es, updatedEntry) ==
    IF \E i \in DOMAIN es : es[i].id = updatedEntry.id
    THEN [i \in DOMAIN es |-> IF es[i].id = updatedEntry.id THEN updatedEntry ELSE es[i]]
    ELSE <<updatedEntry>> \o es

\* setEntries(prev => prev.map(e => e.id === updatedEntry.id ? updatedEntry : e)).
ReplaceEntry(es, updatedEntry) ==
    [i \in DOMAIN es |-> IF es[i].id = updatedEntry.id THEN updatedEntry ELSE es[i]]

\* handleUpdateEntry(updatedEntry), with the save effect that follows it.
handleUpdateEntry(updatedEntry) ==
    /\ entries' = ReplaceEntry(entries, updatedEntry)
    /\ selectedEntry' = Some(updatedEntry)
    /\ localStorage' = SaveEffect(localStorage, user, entries')

\* Whether entry.conversation && entry.conversation.length > 0.
HasConversation(e) == e.conversation # None /\ Len(e.conversation[1]) > 0

\* The assistant turn rebuilt from the entry's original feedback.
SeedTurn(e) ==
    [role |-> "assistant", text |-> e.feedbackText, audioUrl |-> e.feedbackAudioUrl,
     timestamp |-> e.createdAt]

\* An initialHistory that starts every conversation over.
initialHistoryAlwaysSeed(e) == <<SeedTurn(e)>>

\* initialHistory of ConversationMode.
initialHistory(e) ==
    IF HasConversation(e) THEN e.conversation[1] ELSE <<SeedTurn(e)>>

\* The entry prop of the mounted InsightCard / ConversationMode.
EntryProp == selectedEntry[1]

\* The "Continue Conversation" button of InsightCard: ConversationMode mounts with
\* the selected entry, and its mount effect persists the seeded conversation when
\* the entry has none.
OpenConversation ==
    /\ InsightCardMounted(isProcessing, selectedEntry)
    /\ ~showConversation
    /\ showConversation' = TRUE
    /\ conversationHistory' = initialHistory(EntryProp)
    /\ cmIsRecording' = FALSE
    /\ cmIsProcessing' = FALSE
    /\ cmClosure' = None
    /\ IF ~HasConversation(EntryProp)
       THEN handleUpdateEntry([EntryProp EXCEPT !.conversation = Some(initialHistory(EntryProp))])
       ELSE UNCHANGED <<entries, selectedEntry, localStorage>>
    /\ UNCHANGED <<user, isProcessing, selectedVoiceId, isRecording, pc, frame,
                   calls, alertMsg, nextId, rounds, ghostVars>>

\* onClose: InsightCard stops rendering ConversationMode; a round that is in
\* flight goes on without its component.
CloseConversation ==
    /\ showConversation
    /\ showConversation' = FALSE
    /\ conversationHistory' = <<>>
    /\ cmIsRecording' = FALSE
    /\ cmIsProcessing' = FALSE
    /\ cmClosure' = None
    /\ rounds' = [i \in DOMAIN rounds |-> [rounds[i] EXCEPT !.live = FALSE]]
    /\ UNCHANGED <<appVars, ghostVars>>

\* ConversationMode.startRecording (the button is disabled while isProcessing):
\* mediaRecorder.onstop keeps the handleUserMessage of this render, with its entry
\* and conversationHistory.
CmStartRecording ==
    /\ showConversation
    /\ ~cmIsRecording
    /\ ~cmIsProcessing
    /\ roundsStarted < MaxRounds
    /\ cmIsRecording' = TRUE
    /\ cmClosure' = Some([entry |-> EntryProp, conversationHistory |-> conversationHistory])
    /\ UNCHANGED <<appVars, showConversation, conversationHistory, cmIsProcessing,
                   rounds, ghostVars>>

\* A handleUserMessage whose catch block has no finally after it.
RoundFailKeepsFlag(live) ==
    /\ alertMsg' = "Failed to process message"
    /\ UNCHANGED cmIsProcessing

\* The catch and finally blocks of handleUserMessage for a round of a component
\* that is mounted (live) or not.
RoundFail(live) ==
    /\ alertMsg' = "Failed to process message"
    /\ cmIsProcessing' = IF live THEN FALSE ELSE cmIsProcessing

\* ConversationMode.stopRecording, the recorder's onstop and the start of
\* handleUserMessage(audioBlob) up to its first request.
CmStopRecording(size) ==
    /\ showConversation
    /\ cmIsRecording
    /\ ~cmIsProcessing
    /\ roundsStarted' = roundsStarted + 1
    /\ cmIsRecording' = FALSE
    /\ cmClosure' = None
    /\ IF BlobIsEmpty(size)
       THEN /\ RoundFail(TRUE)
            /\ UNCHANGED rounds
       ELSE /\ cmIsProcessing' = TRUE
            /\ rounds' = Append(rounds,
                    [entry |-> cmClosure[1].entry,
                     history |-> cmClosure[1].conversationHistory,
                     stage |-> "transcribing", live |-> TRUE, request |-> None])
            /\ UNCHANGED alertMsg
    /\ UNCHANGED <<user, entries, selectedEntry, isProcessing, selectedVoiceId,
                   localStorage, isRecording, pc, frame, calls, nextId,
                   showConversation, conversationHistory, okRounds>>

RemoveAt(s, i) == SubSeq(s, 1, i - 1) \o SubSeq(s, i + 1, Len(s))

\* A turn of the conversation.
Turn(role, text, audioUrl, now) ==
    [role |-> role, text |-> text, audioUrl |-> audioUrl, timestamp |-> now]

\* entry.emotions.map(...) in handleUserMessage and journalContext.topics.join(...)
\* in continueConversation throw a TypeError on an entry without these fields.
ContextThrows(e) == e.emotions = None \/ e.topics = None

\* updatedHistory.map(turn => ({ role: turn.role, content: turn.text })).
ApiHistory(h) == [n \in DOMAIN h |-> [role |-> h[n].role, content |-> h[n].text]]

\* s.slice(0, -1).
SliceLast(s) == SubSeq(s, 1, Len(s) - 1)

\* A handleUserMessage that passes apiHistory whole.
HistoryArgWithCurrent(updatedHistory) == ApiHistory(updatedHistory)

\* The conversationHistory argument handleUserMessage passes to
\* continueConversation: apiHistory.slice(0, -1).
HistoryArg(updatedHistory) == SliceLast(ApiHistory(updatedHistory))

\* The journalContext argument: the entry's transcript, emotion names and topics.
JournalContext(e) ==
    [transcript |-> e.transcript,
     emotions |-> [n \in DOMAIN e.emotions[1] |-> e.emotions[1][n].name],
     topics |-> e.topics[1]]

\* continueConversation up to its request: the arguments, and the messages it
\* sends (the system message, the history, the user message).
continueConversation(userMessage, history, voiceId, journalContext) ==
    [userMessage |-> userMessage,
     conversationHistory |-> history,
     voiceId |-> voiceId,
     journalContext |-> journalContext,
     messages |-> <<[role |-> "system",
                     content |-> IF voiceId \in DOMAIN VOICE_PERSONAS
                                 THEN VOICE_PERSONAS[voiceId].systemPrompt
                                 ELSE Some("You are an empathetic AI therapist.")]>>
                  \o history
                  \o <<[role |-> "user", content |-> userMessage]>>]

\* Round i resumes with the response of the speech-to-text service: the user turn
\* is appended to the history the round holds, the component's state is set to
\* it, and continueConversation issues its request.
CmTranscribeDone(i, ok) ==
    /\ i \in DOMAIN rounds
    /\ rounds[i].stage = "transcribing"
    /\ IF ~ok
       THEN /\ RoundFail(rounds[i].live)
            /\ rounds' = RemoveAt(rounds, i)
            /\ UNCHANGED conversationHistory
       ELSE LET updatedHistory ==
                    Append(rounds[i].history, Turn("user", Some("u"), "blob:rec", nextId))
            IN /\ conversationHistory' =
                      IF rounds[i].live THEN updatedHistory ELSE conversationHistory
               /\ IF ContextThrows(rounds[i].entry)
                  THEN /\ RoundFail(rounds[i].live)
                       /\ rounds' = RemoveAt(rounds, i)
                  ELSE /\ rounds' = [rounds EXCEPT
                                         ![i].history = updatedHistory,
                                         ![i].stage = "replying",
                                         ![i].request =
                                            Some(continueConversation(
                                                    Some("u"), HistoryArg(updatedHistory),
                                                    rounds[i].entry.voiceId,
                                                    JournalContext(rounds[i].entry)))]
                       /\ UNCHANGED <<alertMsg, cmIsProcessing>>
    /\ UNCHANGED <<user, entries, selectedEntry, isProcessing, selectedVoiceId,
                   localStorage, isRecording, pc, frame, calls, nextId,
                   showConversation, cmIsRecording, cmClosure, ghostVars>>

\* Round i resumes with the response of the conversation service; generateSpeech
\* issues its request.
CmReplyDone(i, ok) ==
    /\ i \in DOMAIN rounds
    /\ rounds[i].stage = "replying"
    /\ IF ~ok
       THEN /\ RoundFail(rounds[i].live)
            /\ rounds' = RemoveAt(rounds, i)
       ELSE /\ rounds' = [rounds EXCEPT ![i].stage = "speaking"]
            /\ UNCHANGED <<alertMsg, cmIsProcessing>>
    /\ UNCHANGED <<user, entries, selectedEntry, isProcessing, selectedVoiceId,
                   localStorage, isRecording, pc, frame, calls, nextId,
                   showConversation, conversationHistory, cmIsRecording, cmClosure,
                   ghostVars>>

\* Round i resumes with the response of the text-to-speech service: the assistant
\* turn is appended and the entry the round holds is written back with the
\* round's history as its conversation.
CmSpeechDone(i, ok) ==
    /\ i \in DOMAIN rounds
    /\ rounds[i].stage = "speaking"
    /\ rounds' = RemoveAt(rounds, i)
    /\ IF ~ok
       THEN /\ RoundFail(rounds[i].live)
            /\ UNCHANGED <<entries, selectedEntry, localStorage, conversationHistory,
                           showConversation, cmIsRecording, cmClosure, ghostVars>>
       ELSE LET finalHistory ==
                    Append(rounds[i].history, Turn("assistant", Some("a"), "blob:tts", nextId))
            IN /\ handleUpdateEntry([rounds[i].entry EXCEPT !.conversation = Some(finalHistory)])
               /\ okRounds' = [okRounds EXCEPT ![rounds[i].entry.id] = @ + 1]
               /\ UNCHANGED roundsStarted
               /\ UNCHANGED alertMsg
               /\ IF InsightCardMounted(isProcessing, selectedEntry')
                  THEN /\ conversationHistory' =
                              IF rounds[i].live THEN finalHistory ELSE conversationHistory
                       /\ cmIsProcessing' = IF rounds[i].live THEN FALSE ELSE cmIsProcessing
                       /\ UNCHANGED <<showConversation, cmIsRecording, cmClosure>>
                  ELSE UNCHANGED <<showConversation, conversationHistory, cmIsRecording,
                                   cmIsProcessing, cmClosure>>
    /\ UNCHANGED <<user, isProcessing, selectedVoiceId, isRecording, pc, frame,
                   calls, nextId>>

\* --------------------------------------------------------------- Spec
\* Nothing is stored under the premium keys.
GateInit ==
    /\ premiumStorage = [k \in PremiumKeys |-> None]
    /\ clock = 0
    /\ gateOp = [name |-> "none", userId |-> NoUser]

Init == AppInit /\ CmInit /\ PersonaInit /\ GateInit

Next ==
    \/ \E v \in VoiceIds : SelectVoice(v) /\ UNCHANGED <<personaVars, gateVars>>
    \/ StartRecording /\ UNCHANGED <<personaVars, gateVars>>
    \/ \E size \in BlobSizes : StopRecording(size) /\ UNCHANGED <<personaVars, gateVars>>
    \/ \E ok \in BOOLEAN, text \in Transcripts : TranscribeDone(ok, text) /\ UNCHANGED <<personaVars, gateVars>>
    \/ \E r \in AnalysisResponses : AnalyzeDone(r) /\ UNCHANGED <<personaVars, gateVars>>
    \/ \E ok \in BOOLEAN : SynthesizeDone(ok) /\ UNCHANGED <<personaVars, gateVars>>
    \/ \E u \in Identities : UserChange(u) /\ UNCHANGED <<personaVars, gateVars>>
    \/ Reload /\ UNCHANGED <<personaVars, gateVars>>
    \/ \E id \in 1..MaxEntries : handleSelectEntry(id) /\ UNCHANGED <<personaVars, gateVars>>

Spec == Init /\ [][Next]_vars

\* The analysis objects that hold a summary and at least two topics.
WellFormedAnalyses ==
    {a \in AnalysisObjects : a.summary # None /\ Len(a.topics[1]) >= 2}

\* The app with two entries that guest pipeline runs have created from well-formed
\* analyses, the newest selected, none of them opened in conversation mode yet.
ConvInit ==
    /\ user = NoUser
    /\ \E a1 \in WellFormedAnalyses, a2 \in WellFormedAnalyses :
         LET f(a, v) == [NoFrame EXCEPT !.voiceId = v, !.audioBlob = Some(1),
                                        !.transcript = "I feel overwhelmed at work",
                                        !.analysis = Some(a)]
             e1 == NewEntry(1, f(a1, AVAILABLE_VOICES[1]), "blob:tts", NoUser)
             e2 == NewEntry(2, f(a2, AVAILABLE_VOICES[2]), "blob:tts", NoUser)
         IN /\ entries = <<e2, e1>>
            /\ selectedEntry = Some(e2)
            /\ localStorage = [k \in StorageKeys |->
                                  IF k = getStorageKey(NoUser) THEN Some(entries) ELSE None]
    /\ isProcessing = FALSE
    /\ selectedVoiceId = AVAILABLE_VOICES[2]
    /\ isRecording = FALSE
    /\ pc = "idle"
    /\ frame = EndFrame([NoFrame EXCEPT !.audioBlob = Some(1)])
    /\ calls = <<"speech-to-text", "analysis", "text-to-speech">>
    /\ alertMsg = ""
    /\ nextId = 3
    /\ CmInit
    /\ PersonaInit
    /\ GateInit

ConvNext ==
    \/ OpenConversation /\ UNCHANGED <<personaVars, gateVars>>
    \/ CloseConversation /\ UNCHANGED <<personaVars, gateVars>>
    \/ CmStartRecording /\ UNCHANGED <<personaVars, gateVars>>
    \/ \E size \in BlobSizes : CmStopRecording(size) /\ UNCHANGED <<personaVars, gateVars>>
    \/ \E i \in 1..MaxRounds, ok \in BOOLEAN : CmTranscribeDone(i, ok) /\ UNCHANGED <<personaVars, gateVars>>
    \/ \E i \in 1..MaxRounds, ok \in BOOLEAN : CmReplyDone(i, ok) /\ UNCHANGED <<personaVars, gateVars>>
    \/ \E i \in 1..MaxRounds, ok \in BOOLEAN : CmSpeechDone(i, ok) /\ UNCHANGED <<personaVars, gateVars>>
    \/ \E id \in 1..MaxEntries : handleSelectEntry(id) /\ UNCHANGED <<personaVars, gateVars>>

ConvSpec == ConvInit /\ [][ConvNext]_vars

\* ---------------------------------------------------------------- claims
EmptyMsg == "Audio blob is empty"

\* A step at which an invocation of handleRecordingComplete fails.
FailStep == alertMsg = "" /\ alertMsg' # ""

\* A step by which a running invocation moves on to its next stage.
StageStep == pc' # pc /\ pc' # "idle"

\* C1: no step of a failing invocation of handleRecordingComplete (its stage
\* transitions, and the step at which transcribeAudio, analyzeTranscript or
\* generateSpeech throws) changes the entries list, the selected entry or the
\* persisted collections: a failed run creates no entry.
C1_FailedRunCommitsNothing ==
    [][(FailStep \/ StageStep) => UNCHANGED <<entries, selectedEntry, localStorage>>]_vars

\* C1 witness: speech synthesis failed while an entry exists and is selected.
C1_Witness ==
    /\ alertMsg = "TTS failed"
    /\ entries # <<>>
    /\ selectedEntry # None
    /\ localStorage[getStorageKey(user)] # None

\* C2: an invocation with a zero-length blob ends at once with the empty-recording
\* error, has issued no adapter request, and leaves the entries and the persisted
\* collections unchanged.
C2_EmptyBlobRejected ==
    /\ [](frame.audioBlob = Some(0) => (alertMsg = EmptyMsg /\ calls = <<>> /\ pc = "idle"))
    /\ [][frame'.audioBlob = Some(0) /\ frame.audioBlob # Some(0)
            => UNCHANGED <<entries, selectedEntry, localStorage>>]_vars

\* C2 witness: an empty recording was rejected while entries exist.
C2_Witness ==
    /\ frame.audioBlob = Some(0)
    /\ alertMsg = EmptyMsg
    /\ entries # <<>>

\* The entries stored under key k.
Stored(k) == IF localStorage[k] = None THEN <<>> ELSE localStorage[k][1]

\* C3: the collection stored under an identity's key holds only entries that
\* were created while that identity was the active one.
C3_NoLeakAcrossIdentities ==
    \A k \in StorageKeys : \A i \in DOMAIN Stored(k) :
        getStorageKey(Stored(k)[i].createdBy) = k

\* Whether field x is present and holds between lo and hi items.
InRange(x, lo, hi) == x # None /\ Len(x[1]) >= lo /\ Len(x[1]) <= hi

\* C6: every entry a pipeline run produced has 2..4 emotions, 2..3 topics and
\* 1..3 psychological markers.
C6_EntryShape ==
    \A i \in DOMAIN entries :
        /\ InRange(entries[i].emotions, 2, 4)
        /\ InRange(entries[i].topics, 2, 3)
        /\ InRange(entries[i].psychMarkers, 1, 3)

\* Whether analysis object a holds every required field.
HasRequiredFields(a) ==
    /\ a.summary # None
    /\ a.emotions # None
    /\ a.topics # None
    /\ a.psychMarkers # None
    /\ a.feedbackText # None

\* C7: an analysis object that omits a required field never reaches speech
\* synthesis and never becomes a stored entry.
C7_MalformedAnalysisRejected ==
    /\ pc = "synthesizing" => HasRequiredFields(frame.analysis[1])
    /\ \A i \in DOMAIN entries : HasRequiredFields(entries[i])
    /\ \A k \in StorageKeys : \A i \in DOMAIN Stored(k) : HasRequiredFields(Stored(k)[i])

\* The conversation of entry e, empty when it has none.
Conv(e) == IF e.conversation = None THEN <<>> ELSE e.conversation[1]

\* Whether sequence p is a prefix of sequence q.
IsPrefix(p, q) == Len(p) <= Len(q) /\ SubSeq(q, 1, Len(p)) = p

\* C4: every update written to an entry keeps the entry's previous conversation
\* as a prefix, and an entry that was seeded and has seen N completed rounds
\* holds a conversation of exactly 1 + 2N turns.
C4_AppendOnly ==
    /\ [](\A i \in DOMAIN entries :
            entries[i].conversation # None
                => Len(Conv(entries[i])) = 1 + 2 * okRounds[entries[i].id])
    /\ [][\A i \in DOMAIN entries : \A j \in DOMAIN entries' :
            entries[i].id = entries'[j].id
                => IsPrefix(Conv(entries[i]), Conv(entries'[j]))]_vars

\* C5: in every persisted conversation the first turn is the assistant's and no
\* two consecutive turns have the same role.
C5_RolesAlternate ==
    \A k \in StorageKeys : \A i \in DOMAIN Stored(k) :
        LET c == Conv(Stored(k)[i])
        IN /\ Len(c) > 0 => c[1].role = "assistant"
           /\ \A n \in 1..(Len(c) - 1) : c[n].role # c[n + 1].role

\* ================================================================ personas
\* The persona app (src/unnamed/part_002) and its PersonaCreator. The journal
\* pipeline and the conversation do not run here.

\* What the persona workflow leaves alone of the journal and the conversation.
journalVars == <<user, entries, selectedEntry, isProcessing, localStorage, isRecording,
                 pc, frame, calls, cmVars, ghostVars, gateVars>>

\* The save effect of the persona app: customPersonas is written whenever the
\* list is non-empty.
SavePersonas(store, ps) == IF Len(ps) > 0 THEN Some(ps) ELSE store

\* A handlePersonaChange that looks the persona up under the whole option value,
\* 'custom-' included, and finds none.
handlePersonaChangeKeepsPrefix(kind, arg) ==
    /\ ~isProcessing
    /\ IF kind = "create-new"
       THEN /\ showPersonaCreator' = TRUE
            /\ IF showPersonaCreator
               THEN UNCHANGED <<creatorVars, createdCalls>>
               ELSE /\ prompt' = <<>>
                    /\ isGenerating' = FALSE
                    /\ currentStep' = "input"
                    /\ generatedPersona' = None
                    /\ generatedVoice' = None
                    /\ error' = None
                    /\ pcGen' = "idle"
                    /\ genFrame' = None
                    /\ createdCalls' = 0
            /\ UNCHANGED <<selectedPersona, selectedVoiceId>>
       ELSE /\ IF kind = "custom"
               THEN /\ selectedPersona' = None
                    /\ selectedVoiceId' = ""
               ELSE /\ selectedPersona' = None
                    /\ selectedVoiceId' = arg
            /\ UNCHANGED <<showPersonaCreator, creatorVars, createdCalls>>
    /\ UNCHANGED <<customPersonas, personaStore, genRuns, voiceLibrary, discarded,
                   alertMsg, nextId, journalVars>>

\* App.handlePersonaChange(value), value being an option of the selector:
\* 'create-new', `custom-${id}` or the id of a built-in voice. Showing the
\* creator mounts a PersonaCreator in its initial state.
handlePersonaChange(kind, arg) ==
    /\ ~isProcessing
    /\ IF kind = "create-new"
       THEN /\ showPersonaCreator' = TRUE
            /\ IF showPersonaCreator
               THEN UNCHANGED <<creatorVars, createdCalls>>
               ELSE /\ prompt' = <<>>
                    /\ isGenerating' = FALSE
                    /\ currentStep' = "input"
                    /\ generatedPersona' = None
                    /\ generatedVoice' = None
                    /\ error' = None
                    /\ pcGen' = "idle"
                    /\ genFrame' = None
                    /\ createdCalls' = 0
            /\ UNCHANGED <<selectedPersona, selectedVoiceId>>
       ELSE /\ IF kind = "custom"
               THEN /\ selectedPersona' =
                         IF \E i \in DOMAIN customPersonas : customPersonas[i].id = arg
                         THEN Some(customPersonas[CHOOSE i \in DOMAIN customPersonas :
                                                      customPersonas[i].id = arg])
                         ELSE None
                    /\ selectedVoiceId' = ""
               ELSE /\ selectedPersona' = None
                    /\ selectedVoiceId' = arg
            /\ UNCHANGED <<showPersonaCreator, creatorVars, createdCalls>>
    /\ UNCHANGED <<customPersonas, personaStore, genRuns, voiceLibrary, discarded,
                   alertMsg, nextId, journalVars>>

\* onCancel of the creator: the close and Cancel buttons, disabled while
\* isGenerating. The PersonaCreator unmounts.
onCancel ==
    /\ showPersonaCreator
    /\ ~isGenerating
    /\ showPersonaCreator' = FALSE
    /\ UNCHANGED <<customPersonas, selectedPersona, personaStore, creatorVars, genRuns,
                   voiceLibrary, createdCalls, discarded, selectedVoiceId, alertMsg,
                   nextId, journalVars>>

\* setPrompt from the textarea or an example chip of the Input step.
setPrompt(p) ==
    /\ showPersonaCreator
    /\ currentStep = "input"
    /\ prompt' = p
    /\ UNCHANGED <<isGenerating, currentStep, generatedPersona, generatedVoice, error,
                   pcGen, genFrame>>
    /\ UNCHANGED <<customPersonas, selectedPersona, showPersonaCreator, personaStore,
                   genRuns, voiceLibrary, createdCalls, discarded, selectedVoiceId,
                   alertMsg, nextId, journalVars>>

\* The state a handler of PersonaCreator closes over when it is invoked, with the
\* local persona of handleGenerate.
Closure == [prompt |-> prompt, generatedPersona |-> generatedPersona,
            generatedVoice |-> generatedVoice, persona |-> None, run |-> genRuns]

\* What no handler of the PersonaCreator itself touches.
outsideCreator == <<customPersonas, selectedPersona, showPersonaCreator, personaStore,
                    voiceLibrary, createdCalls, discarded, selectedVoiceId, alertMsg,
                    nextId, journalVars>>

\* A handleGenerate that refuses only the empty prompt.
handleGenerateNoTrim ==
    /\ showPersonaCreator
    /\ currentStep = "input"
    /\ ~isGenerating
    /\ IF prompt = <<>>
       THEN /\ error' = Some("Please enter a description for your persona")
            /\ UNCHANGED <<isGenerating, pcGen, genFrame, genRuns>>
       ELSE /\ genRuns < MaxGenerations
            /\ isGenerating' = TRUE
            /\ error' = None
            /\ genRuns' = genRuns + 1
            /\ pcGen' = "generatePersonaFromPrompt"
            /\ genFrame' = Some([Closure EXCEPT !.run = genRuns + 1])
    /\ UNCHANGED <<prompt, currentStep, generatedPersona, generatedVoice, outsideCreator>>

\* PersonaCreator.handleGenerate up to its first await: an empty or blank prompt
\* is refused with an error, otherwise persona generation is requested.
handleGenerate ==
    /\ showPersonaCreator
    /\ currentStep = "input"
    /\ ~isGenerating
    /\ IF Trim(prompt) = <<>>
       THEN /\ error' = Some("Please enter a description for your persona")
            /\ UNCHANGED <<isGenerating, pcGen, genFrame, genRuns>>
       ELSE /\ genRuns < MaxGenerations
            /\ isGenerating' = TRUE
            /\ error' = None
            /\ genRuns' = genRuns + 1
            /\ pcGen' = "generatePersonaFromPrompt"
            /\ genFrame' = Some([Closure EXCEPT !.run = genRuns + 1])
    /\ UNCHANGED <<prompt, currentStep, generatedPersona, generatedVoice, outsideCreator>>

\* A handleGenerate whose catch block shows the Preview step.
GenerateFailShowsPreview(msg) ==
    /\ error' = Some(msg)
    /\ isGenerating' = FALSE
    /\ pcGen' = "idle"
    /\ genFrame' = None
    /\ currentStep' = "preview"
    /\ UNCHANGED <<prompt, generatedVoice, genRuns, outsideCreator>>

\* The catch and finally blocks of handleGenerate.
GenerateFail(msg) ==
    /\ error' = Some(msg)
    /\ isGenerating' = FALSE
    /\ pcGen' = "idle"
    /\ genFrame' = None
    /\ UNCHANGED <<prompt, currentStep, generatedVoice, genRuns, outsideCreator>>

\* handleGenerate resumes with the response of generatePersonaFromPrompt: the
\* parsed object is stored without a check of its fields, and voice design is
\* requested.
GeneratePersonaDone(r) ==
    /\ pcGen = "generatePersonaFromPrompt"
    /\ IF ~r.ok
       THEN GenerateFail("Failed to generate persona") /\ UNCHANGED generatedPersona
       ELSE IF ~r.json
       THEN GenerateFail("SyntaxError") /\ UNCHANGED generatedPersona
       ELSE /\ generatedPersona' = r.body
            /\ genFrame' = Some([genFrame[1] EXCEPT !.persona = r.body])
            /\ pcGen' = "generateVoiceFromPrompt"
            /\ UNCHANGED <<prompt, isGenerating, currentStep, generatedVoice, error,
                           genRuns, outsideCreator>>

\* A handleGenerate that shows the Preview step with the persona it closed over.
GenerateVoiceDoneStalePersona(r) ==
    /\ pcGen = "generateVoiceFromPrompt"
    /\ IF r = "error"
       THEN GenerateFail("Failed to generate voice") /\ UNCHANGED generatedPersona
       ELSE IF r = "no previews"
       THEN GenerateFail("No voice previews generated") /\ UNCHANGED generatedPersona
       ELSE IF r = "no audio"
       THEN GenerateFail("No audio data in voice preview") /\ UNCHANGED generatedPersona
       ELSE /\ generatedVoice' = Some([voiceId |-> PreviewVoiceId(genFrame[1].run),
                                       previewAudioUrl |-> "blob:preview"])
            /\ generatedPersona' = IF genFrame[1].generatedPersona # None
                                   THEN genFrame[1].generatedPersona
                                   ELSE generatedPersona
            /\ currentStep' = "preview"
            /\ isGenerating' = FALSE
            /\ pcGen' = "idle"
            /\ genFrame' = None
            /\ UNCHANGED <<prompt, error, genRuns, outsideCreator>>

\* handleGenerate resumes with the response of generateVoiceFromPrompt: the first
\* preview becomes generatedVoice and the step becomes Preview.
GenerateVoiceDone(r) ==
    /\ pcGen = "generateVoiceFromPrompt"
    /\ IF r = "error"
       THEN GenerateFail("Failed to generate voice") /\ UNCHANGED generatedPersona
       ELSE IF r = "no previews"
       THEN GenerateFail("No voice previews generated") /\ UNCHANGED generatedPersona
       ELSE IF r = "no audio"
       THEN GenerateFail("No audio data in voice preview") /\ UNCHANGED generatedPersona
       ELSE /\ generatedVoice' = Some([voiceId |-> PreviewVoiceId(genFrame[1].run),
                                       previewAudioUrl |-> "blob:preview"])
            /\ currentStep' = "preview"
            /\ isGenerating' = FALSE
            /\ pcGen' = "idle"
            /\ genFrame' = None
            /\ UNCHANGED <<prompt, generatedPersona, error, genRuns, outsideCreator>>

\* The Preview step is rendered, with its two buttons enabled.
PreviewShown ==
    /\ showPersonaCreator
    /\ currentStep = "preview"
    /\ generatedPersona # None
    /\ generatedVoice # None
    /\ ~isGenerating

\* PersonaCreator.handleConfirm up to its await: finalization of the preview
\* voice is requested.
handleConfirm ==
    /\ PreviewShown
    /\ isGenerating' = TRUE
    /\ error' = None
    /\ pcGen' = "createVoiceFromPreview"
    /\ genFrame' = Some(Closure)
    /\ UNCHANGED <<prompt, currentStep, generatedPersona, generatedVoice, genRuns,
                   outsideCreator>>

\* App.handlePersonaCreated, with the save effect of the commit it causes.
handlePersonaCreated(persona) ==
    /\ customPersonas' = Append(customPersonas, persona)
    /\ selectedPersona' = Some(persona)
    /\ showPersonaCreator' = FALSE
    /\ alertMsg' = "Persona created successfully"
    /\ personaStore' = SavePersonas(personaStore, Append(customPersonas, persona))

\* The Persona that handleConfirm builds from the closed-over generation.
NewPersona(id, c, permanentVoiceId, now) ==
    [id |-> id,
     name |-> c.generatedPersona[1].name,
     personality |-> c.generatedPersona[1].personality,
     systemPrompt |-> c.generatedPersona[1].systemPrompt,
     feedbackStyle |-> c.generatedPersona[1].feedbackStyle,
     voiceId |-> permanentVoiceId,
     createdAt |-> now,
     isCustom |-> TRUE]

\* A handleConfirm that hands the persona over with its preview voice although
\* finalization failed.
ConfirmFailCommits ==
    /\ handlePersonaCreated(NewPersona(nextId, genFrame[1],
                                       genFrame[1].generatedVoice[1].voiceId, nextId))
    /\ createdCalls' = createdCalls + 1
    /\ nextId' = nextId + 1
    /\ error' = Some("Failed to create voice")
    /\ isGenerating' = FALSE
    /\ pcGen' = "idle"
    /\ genFrame' = None
    /\ UNCHANGED <<prompt, currentStep, generatedPersona, generatedVoice, genRuns,
                   voiceLibrary, discarded, selectedVoiceId, journalVars>>

\* A handleConfirm whose catch block throws the preview away.
ConfirmFailResets ==
    /\ error' = Some("Failed to create voice")
    /\ isGenerating' = FALSE
    /\ pcGen' = "idle"
    /\ genFrame' = None
    /\ currentStep' = "input"
    /\ generatedVoice' = None
    /\ UNCHANGED <<prompt, generatedPersona, genRuns, outsideCreator>>

\* The catch and finally blocks of handleConfirm.
ConfirmFail ==
    /\ error' = Some("Failed to create voice")
    /\ isGenerating' = FALSE
    /\ pcGen' = "idle"
    /\ genFrame' = None
    /\ UNCHANGED <<prompt, currentStep, generatedPersona, generatedVoice, genRuns,
                   outsideCreator>>

\* handleConfirm resumes with the response of createVoiceFromPreview: on success
\* the Persona is built and handed to onPersonaCreated, and the step becomes
\* Complete.
ConfirmDone(ok) ==
    /\ pcGen = "createVoiceFromPreview"
    /\ IF ~ok
       THEN ConfirmFail
       ELSE LET permanentVoiceId == PermanentVoiceId(genFrame[1].generatedVoice[1].voiceId)
            IN /\ voiceLibrary' = voiceLibrary \cup {permanentVoiceId}
               /\ handlePersonaCreated(NewPersona(nextId, genFrame[1], permanentVoiceId,
                                                  nextId))
               /\ createdCalls' = createdCalls + 1
               /\ nextId' = nextId + 1
               /\ currentStep' = "complete"
               /\ isGenerating' = FALSE
               /\ pcGen' = "idle"
               /\ genFrame' = None
               /\ UNCHANGED <<prompt, generatedPersona, generatedVoice, error, genRuns,
                              discarded, selectedVoiceId, journalVars>>

\* A handleRegenerate that keeps the voice preview.
handleRegenerateKeepsVoice ==
    /\ PreviewShown
    /\ currentStep' = "input"
    /\ generatedPersona' = None
    /\ error' = None
    /\ discarded' = discarded \cup {generatedVoice[1].voiceId}
    /\ UNCHANGED <<prompt, isGenerating, generatedVoice, pcGen, genFrame, genRuns>>
    /\ UNCHANGED <<customPersonas, selectedPersona, showPersonaCreator, personaStore,
                   voiceLibrary, createdCalls, selectedVoiceId, alertMsg, nextId,
                   journalVars>>

\* PersonaCreator.handleRegenerate, the Regenerate button of the Preview step.
handleRegenerate ==
    /\ PreviewShown
    /\ currentStep' = "input"
    /\ generatedPersona' = None
    /\ generatedVoice' = None
    /\ error' = None
    /\ discarded' = discarded \cup {generatedVoice[1].voiceId}
    /\ UNCHANGED <<prompt, isGenerating, pcGen, genFrame, genRuns>>
    /\ UNCHANGED <<customPersonas, selectedPersona, showPersonaCreator, personaStore,
                   voiceLibrary, createdCalls, selectedVoiceId, alertMsg, nextId,
                   journalVars>>

\* The page is loaded anew: the persona app mounts with the stored personas, and
\* whatever a PersonaCreator was doing is gone.
PersonaReload ==
    /\ customPersonas' = IF personaStore # None THEN personaStore[1] ELSE <<>>
    /\ selectedPersona' = None
    /\ showPersonaCreator' = FALSE
    /\ selectedVoiceId' = AVAILABLE_VOICES[1]
    /\ isGenerating' = FALSE
    /\ pcGen' = "idle"
    /\ genFrame' = None
    /\ UNCHANGED <<prompt, currentStep, generatedPersona, generatedVoice, error>>
    /\ UNCHANGED <<personaStore, genRuns, voiceLibrary, createdCalls, discarded, alertMsg,
                   nextId, journalVars>>

PersonaNext ==
    \/ handlePersonaChange("create-new", "")
    \/ \E i \in DOMAIN customPersonas : handlePersonaChange("custom", customPersonas[i].id)
    \/ \E v \in VoiceIds : handlePersonaChange("voice", v)
    \/ onCancel
    \/ \E p \in Prompts : setPrompt(p)
    \/ handleGenerate
    \/ \E r \in PersonaResponses(genRuns) : GeneratePersonaDone(r)
    \/ \E r \in VoiceResponses : GenerateVoiceDone(r)
    \/ handleConfirm
    \/ \E ok \in BOOLEAN : ConfirmDone(ok)
    \/ handleRegenerate
    \/ PersonaReload

PersonaSpec == Init /\ [][PersonaNext]_vars

\* -------------------------------------------------- claims on PersonaSpec

\* C8: onPersonaCreated is called at most once by a PersonaCreator, the registry
\* changes only in the step in which createVoiceFromPreview returned the
\* permanent voice, and every registered persona carries a voice the service
\* has created.
C8_CreatedOnlyAfterFinalization ==
    /\ [](createdCalls <= 1)
    /\ [](\A i \in DOMAIN customPersonas : customPersonas[i].voiceId \in voiceLibrary)
    /\ [][(customPersonas' # customPersonas \/ createdCalls' > createdCalls)
            => /\ pcGen = "createVoiceFromPreview"
               /\ createdCalls' = 1
               /\ PermanentVoiceId(genFrame[1].generatedVoice[1].voiceId) \in voiceLibrary'
               /\ customPersonas'[Len(customPersonas')].voiceId
                    = PermanentVoiceId(genFrame[1].generatedVoice[1].voiceId)]_vars

C8_Witness ==
    /\ createdCalls = 1
    /\ Len(customPersonas) = 1
    /\ currentStep = "complete"
    /\ customPersonas[1].voiceId \in voiceLibrary

\* C9: Regenerate in the Preview step returns the mounted creator to Input with
\* persona, voice and error cleared and nothing persisted or registered, and no
\* finalization request or registered persona uses a preview that was dropped.
C9_RegenerateDiscardsPreview ==
    /\ [][(showPersonaCreator /\ showPersonaCreator'
            /\ currentStep = "preview" /\ currentStep' = "input")
            => /\ generatedPersona' = None
               /\ generatedVoice' = None
               /\ error' = None
               /\ UNCHANGED <<customPersonas, selectedPersona, personaStore,
                              voiceLibrary, createdCalls>>]_vars
    /\ [](pcGen = "createVoiceFromPreview"
            => /\ genFrame[1].generatedVoice[1].voiceId \notin discarded
               /\ genFrame[1].generatedVoice[1].voiceId = PreviewVoiceId(genRuns)
               /\ genFrame[1].generatedPersona[1].run = genRuns)
    /\ [](\A i \in DOMAIN customPersonas :
            \A d \in discarded : customPersonas[i].voiceId # PermanentVoiceId(d))

C9_Witness ==
    /\ discarded = {PreviewVoiceId(1)}
    /\ pcGen = "createVoiceFromPreview"
    /\ genFrame[1].generatedVoice[1].voiceId = PreviewVoiceId(2)

\* C10: when createVoiceFromPreview fails no persona is created or registered,
\* the creator stays in Preview with the generated persona and voice as they
\* were, and Confirm is enabled again.
C10_FailedConfirmKeepsPreview ==
    [][(pcGen = "createVoiceFromPreview" /\ pcGen' = "idle" /\ error' # None)
        => /\ currentStep' = "preview"
           /\ PreviewShown'
           /\ UNCHANGED <<generatedPersona, generatedVoice, customPersonas,
                          selectedPersona, personaStore, createdCalls>>]_vars

C10_Witness ==
    /\ PreviewShown
    /\ error = Some("Failed to create voice")
    /\ customPersonas = <<>>
    /\ personaStore = None

\* ---------------------------------------------- more claims on PersonaSpec

EmptyPromptMsg == Some("Please enter a description for your persona")

\* A step at which handleGenerate refuses the prompt.
RejectStep == error' = EmptyPromptMsg /\ error # EmptyPromptMsg

\* What every refusal of a prompt does and leaves alone: the prompt is blank, no
\* request is issued, and the creator stays at Input, not generating.
RejectsBeforeAnyRequest ==
    /\ [][RejectStep => /\ Trim(prompt) = <<>>
                        /\ pcGen' = "idle" /\ ~isGenerating'
                        /\ genRuns' = genRuns
                        /\ currentStep' = "input"
                        /\ UNCHANGED <<customPersonas, personaStore, voiceLibrary>>]_vars
    /\ [][(showPersonaCreator /\ currentStep = "input" /\ pcGen = "idle"
             /\ Trim(prompt) = <<>> /\ prompt' = prompt)
            => (genRuns' = genRuns /\ pcGen' = "idle")]_vars

\* C23 as stated: a blank prompt is refused before any request, and after the
\* refusal the creator is at Input and holds no generated persona and no
\* generated voice.
C23_BlankPromptRejected ==
    /\ RejectsBeforeAnyRequest
    /\ [][RejectStep => (generatedPersona' = None /\ generatedVoice' = None)]_vars

\* C23, amended: a blank prompt is refused before any request, and the refusal
\* leaves the generated persona and voice as they were: there is no voice, and
\* there is a persona only when an earlier run got one and then failed at voice
\* design.
C23_BlankPromptRejectedKeepsState ==
    /\ RejectsBeforeAnyRequest
    /\ [][RejectStep => /\ UNCHANGED <<generatedPersona, generatedVoice>>
                        /\ generatedVoice' = None]_vars

\* C23 witness: a whitespace prompt was refused after an earlier run had failed at
\* voice design.
C23_Witness ==
    /\ showPersonaCreator
    /\ error = EmptyPromptMsg
    /\ prompt = <<" ">>
    /\ currentStep = "input"
    /\ pcGen = "idle"
    /\ genRuns = 1
    /\ generatedPersona # None

\* Where the workflow of the PersonaCreator stands.
Phase ==
    IF currentStep = "complete" THEN "Complete"
    ELSE IF currentStep = "input" THEN (IF isGenerating THEN "Generating" ELSE "Input")
    ELSE (IF isGenerating THEN "Creating" ELSE "Preview")

\* A step of a PersonaCreator that stays mounted, or that completes.
WorkflowStep == showPersonaCreator /\ (showPersonaCreator' \/ currentStep' = "complete")

\* What holds of the transitions the claim lists: Preview is entered from
\* Generating with persona and voice and no error, or from Creating with an
\* error; Complete from Creating with the persona handed over; Input from
\* Generating with an error.
ListedTransitions ==
    /\ [][(WorkflowStep /\ Phase = "Generating" /\ Phase' = "Preview")
            => (generatedPersona' # None /\ generatedVoice' # None /\ error' = None)]_vars
    /\ [][(WorkflowStep /\ Phase = "Generating" /\ Phase' = "Input") => error' # None]_vars
    /\ [][(WorkflowStep /\ Phase = "Creating" /\ Phase' = "Preview")
            => (error' # None /\ UNCHANGED customPersonas)]_vars
    /\ [][(WorkflowStep /\ Phase' = "Complete" /\ Phase # "Complete")
            => (Phase = "Creating" /\ createdCalls' = createdCalls + 1
                /\ Len(customPersonas') = Len(customPersonas) + 1)]_vars
    /\ [](showPersonaCreator => Phase # "Complete")

\* C24 as stated: a mounted creator only moves Input to Generating, Generating to
\* Preview or back to Input, Preview to Creating, Creating to Complete or back to
\* Preview.
C24_WorkflowTransitions ==
    /\ ListedTransitions
    /\ [][(WorkflowStep /\ Phase' # Phase)
            => <<Phase, Phase'>> \in {<<"Input", "Generating">>, <<"Generating", "Preview">>,
                                      <<"Generating", "Input">>, <<"Preview", "Creating">>,
                                      <<"Creating", "Complete">>, <<"Creating", "Preview">>}]_vars

\* C24, amended: the same transitions, and Preview to Input by Regenerate, which
\* clears the generated persona and voice.
C24_WorkflowTransitionsWithRegenerate ==
    /\ ListedTransitions
    /\ [][(WorkflowStep /\ Phase' # Phase)
            => <<Phase, Phase'>> \in {<<"Input", "Generating">>, <<"Generating", "Preview">>,
                                      <<"Generating", "Input">>, <<"Preview", "Creating">>,
                                      <<"Creating", "Complete">>, <<"Creating", "Preview">>,
                                      <<"Preview", "Input">>}]_vars
    /\ [][(WorkflowStep /\ Phase = "Preview" /\ Phase' = "Input")
            => (generatedPersona' = None /\ generatedVoice' = None /\ pcGen' = "idle")]_vars

\* C24 witness: a creator that went back to Input by Regenerate, generated again
\* and completed.
C24_Witness ==
    /\ Phase = "Complete"
    /\ discarded # {}
    /\ genRuns = MaxGenerations
    /\ createdCalls = 1

\* Whether a persona-generation object holds name, personality, systemPrompt and
\* feedbackStyle.
PersonaComplete(o) ==
    /\ o.name # None
    /\ o.personality # None
    /\ o.systemPrompt # None
    /\ o.feedbackStyle # None

\* C25: voice design is only requested with, and Preview only shows, a generated
\* persona that holds name, personality, systemPrompt and feedbackStyle.
C25_IncompletePersonaRejected ==
    /\ pcGen = "generateVoiceFromPrompt" => PersonaComplete(genFrame[1].persona[1])
    /\ (showPersonaCreator /\ currentStep = "preview") => PersonaComplete(generatedPersona[1])
    /\ \A i \in DOMAIN customPersonas : PersonaComplete(customPersonas[i])

\* ============================================================ subscription
\* The subscription utilities of src/src/utils/stripe.ts, called for any identity
\* at any time, while the clock advances.

\* An isPremiumUser that never looks at the expiry.
isPremiumUserIgnoresExpiry(userId) ==
    LET premiumStatus == premiumStorage[getPremiumStorageKey(userId)]
    IN IF premiumStatus # None THEN premiumStatus[1].isPremium ELSE FALSE

\* isPremiumUser(userId): a stored record with isPremium whose expiry is later
\* than the clock.
isPremiumUser(userId) ==
    LET premiumStatus == premiumStorage[getPremiumStorageKey(userId)]
    IN IF premiumStatus # None
       THEN premiumStatus[1].isPremium /\ premiumStatus[1].expiresAt > clock
       ELSE FALSE

\* A number, or the Infinity that getRemainingFreeEntries returns.
Finite(n) == [finite |-> TRUE, value |-> n]
Infinity == [finite |-> FALSE, value |-> 0]

\* Math.max.
Max(a, b) == IF a >= b THEN a ELSE b

\* A getRemainingFreeEntries without Math.max.
getRemainingFreeEntriesUnclamped(totalEntries, userId) ==
    IF isPremiumUser(userId) THEN Infinity
    ELSE Finite(FREE_ENTRY_LIMIT - totalEntries)

\* getRemainingFreeEntries(totalEntries, userId).
getRemainingFreeEntries(totalEntries, userId) ==
    IF isPremiumUser(userId) THEN Infinity
    ELSE Finite(Max(0, FREE_ENTRY_LIMIT - totalEntries))

\* A hasReachedLimit that lets a free identity go one entry past the limit.
hasReachedLimitOffByOne(totalEntries, userId) ==
    IF isPremiumUser(userId) THEN FALSE ELSE totalEntries > FREE_ENTRY_LIMIT

\* hasReachedLimit(totalEntries, userId).
hasReachedLimit(totalEntries, userId) ==
    IF isPremiumUser(userId) THEN FALSE ELSE totalEntries >= FREE_ENTRY_LIMIT

\* 1000 * 60 * 60 * 24: the length of a day, in the unit the instants of InfoSpec
\* are counted in (half days).
DAY == 2

\* Math.ceil(a / d) for d > 0.
Ceil(a, d) == -((-a) \div d)

\* A getSubscriptionInfo that rounds the remaining days down.
getSubscriptionInfoFloor(userId) ==
    LET premiumStatus == premiumStorage[getPremiumStorageKey(userId)]
    IN IF premiumStatus = None
       THEN [isPremium |-> FALSE, expiresAt |-> None, daysRemaining |-> None]
       ELSE LET expiryDate == premiumStatus[1].expiresAt
                now == clock
                daysRemaining == (expiryDate - now) \div DAY
            IN [isPremium |-> premiumStatus[1].isPremium /\ expiryDate > now,
                expiresAt |-> Some(expiryDate),
                daysRemaining |-> Some(IF daysRemaining > 0 THEN daysRemaining ELSE 0)]

\* getSubscriptionInfo(userId): without a record { isPremium: false } and no
\* other field; with one, isPremium, expiresAt and daysRemaining.
getSubscriptionInfo(userId) ==
    LET premiumStatus == premiumStorage[getPremiumStorageKey(userId)]
    IN IF premiumStatus = None
       THEN [isPremium |-> FALSE, expiresAt |-> None, daysRemaining |-> None]
       ELSE LET expiryDate == premiumStatus[1].expiresAt
                now == clock
                daysRemaining == Ceil(expiryDate - now, DAY)
            IN [isPremium |-> premiumStatus[1].isPremium /\ expiryDate > now,
                expiresAt |-> Some(expiryDate),
                daysRemaining |-> Some(IF daysRemaining > 0 THEN daysRemaining ELSE 0)]

\* What the subscription utilities leave alone.
outsideGate == <<appVars, cmVars, ghostVars, personaVars>>

\* The record activatePremium writes at instant t for a duration of months.
PremiumRecord(t, months) ==
    [isPremium |-> TRUE, activatedAt |-> t, expiresAt |-> t + months]

\* An activatePremium that writes every identity's record.
activatePremiumForAll(userId, months) ==
    /\ premiumStorage' = [k \in PremiumKeys |->
                             IF k = LegacyPremiumKey THEN premiumStorage[k]
                             ELSE Some(PremiumRecord(clock, months))]
    /\ gateOp' = [name |-> "activatePremium", userId |-> userId]
    /\ UNCHANGED <<clock, outsideGate>>

\* activatePremium(userId, months).
activatePremium(userId, months) ==
    /\ premiumStorage' = [premiumStorage EXCEPT ![getPremiumStorageKey(userId)] =
                             Some(PremiumRecord(clock, months))]
    /\ gateOp' = [name |-> "activatePremium", userId |-> userId]
    /\ UNCHANGED <<clock, outsideGate>>

\* deactivatePremium(userId).
deactivatePremium(userId) ==
    /\ premiumStorage' = [premiumStorage EXCEPT ![getPremiumStorageKey(userId)] = None]
    /\ gateOp' = [name |-> "deactivatePremium", userId |-> userId]
    /\ UNCHANGED <<clock, outsideGate>>

\* What checkExpiredPremium leaves of a store: the record under
\* 'mindpebbles_premium' is removed when it has expired.
AfterCheckExpired(store) ==
    IF /\ store[LegacyPremiumKey] # None
       /\ store[LegacyPremiumKey][1].isPremium
       /\ store[LegacyPremiumKey][1].expiresAt <= clock
    THEN [store EXCEPT ![LegacyPremiumKey] = None]
    ELSE store

\* The module is loaded (the page is opened): checkExpiredPremium runs.
checkExpiredPremium ==
    /\ premiumStorage' = AfterCheckExpired(premiumStorage)
    /\ gateOp' = [name |-> "checkExpiredPremium", userId |-> NoUser]
    /\ UNCHANGED <<clock, outsideGate>>

\* A read of the gate for an identity: isPremiumUser, hasReachedLimit,
\* getRemainingFreeEntries or getSubscriptionInfo. None of them writes.
GateRead(name, userId) ==
    /\ gateOp' = [name |-> name, userId |-> userId]
    /\ UNCHANGED <<premiumStorage, clock, outsideGate>>

GateReads == {"isPremiumUser", "hasReachedLimit", "getRemainingFreeEntries",
              "getSubscriptionInfo"}

\* createCheckoutSession in demo mode, the user having confirmed: activatePremium()
\* is called without a userId, and the page is loaded anew.
createCheckoutSession ==
    /\ premiumStorage' =
          AfterCheckExpired([premiumStorage EXCEPT ![getPremiumStorageKey(NoUser)] =
                                Some(PremiumRecord(clock, DefaultMonths))])
    /\ gateOp' = [name |-> "activatePremium", userId |-> NoUser]
    /\ UNCHANGED <<clock, outsideGate>>

\* Time passes; no call has been made since.
Tick ==
    /\ clock < MaxTime
    /\ clock' = clock + 1
    /\ gateOp' = [name |-> "none", userId |-> NoUser]
    /\ UNCHANGED <<premiumStorage, outsideGate>>

GateNext ==
    \/ \E u \in GateIdentities, months \in Months : activatePremium(u, months)
    \/ \E u \in GateIdentities : deactivatePremium(u)
    \/ checkExpiredPremium
    \/ \E name \in GateReads, u \in GateIdentities : GateRead(name, u)
    \/ createCheckoutSession
    \/ Tick

\* Nothing is stored for any identity; an earlier version of the app may have
\* left a record under the key checkExpiredPremium looks at.
GateSpecInit ==
    /\ AppInit /\ CmInit /\ PersonaInit
    /\ premiumStorage \in
          {[k \in PremiumKeys |-> IF k = LegacyPremiumKey THEN legacy ELSE None] :
             legacy \in {None, Some([isPremium |-> TRUE, activatedAt |-> 0, expiresAt |-> 1])}}
    /\ clock = 0
    /\ gateOp = [name |-> "none", userId |-> NoUser]

GateSpec == GateSpecInit /\ [][GateNext]_vars

\* ------------------------------------------------------ claims on GateSpec

\* Whether the record stored for identity u says premium with an expiry later
\* than the clock.
StoredPremiumActive(u) ==
    /\ premiumStorage[getPremiumStorageKey(u)] # None
    /\ premiumStorage[getPremiumStorageKey(u)][1].isPremium
    /\ premiumStorage[getPremiumStorageKey(u)][1].expiresAt > clock

\* C11: for every identity, entry count and stored premium state, creation is
\* allowed (hasReachedLimit is false) exactly when the identity is premium or its
\* count is below the free limit.
C11_CanCreateIffPremiumOrBelowLimit ==
    \A u \in GateIdentities : \A count \in 0..MaxCount :
        (~hasReachedLimit(count, u)) <=> (StoredPremiumActive(u) \/ count < FREE_ENTRY_LIMIT)

C11_Witness ==
    /\ gateOp = [name |-> "hasReachedLimit", userId |-> "user_1"]
    /\ StoredPremiumActive("user_1")
    /\ ~StoredPremiumActive(NoUser)
    /\ premiumStorage[getPremiumStorageKey(NoUser)] # None
    /\ ~hasReachedLimit(MaxCount, "user_1")
    /\ hasReachedLimit(FREE_ENTRY_LIMIT, NoUser)

\* Whether a record is stored for identity u whose expiry is not later than now.
StoredExpired(u) ==
    /\ premiumStorage[getPremiumStorageKey(u)] # None
    /\ premiumStorage[getPremiumStorageKey(u)][1].expiresAt <= clock

\* C12: when activatePremium has stored an expiry in the future for an identity,
\* creation is allowed for it whatever its count; and whenever the stored expiry
\* has passed, isPremiumUser and getSubscriptionInfo report not premium, with no
\* write in between.
C12_PremiumUntilExpiry ==
    /\ [][\A u \in GateIdentities :
            (/\ gateOp' = [name |-> "activatePremium", userId |-> u]
             /\ premiumStorage'[getPremiumStorageKey(u)][1].expiresAt > clock')
            => \A count \in 0..MaxCount : ~hasReachedLimit(count, u)']_vars
    /\ [](\A u \in GateIdentities :
            StoredExpired(u) => /\ ~isPremiumUser(u)
                                /\ ~getSubscriptionInfo(u).isPremium
                                /\ hasReachedLimit(FREE_ENTRY_LIMIT, u))

C12_Witness ==
    /\ gateOp = [name |-> "isPremiumUser", userId |-> "user_1"]
    /\ premiumStorage[getPremiumStorageKey("user_1")]
         = Some([isPremium |-> TRUE, activatedAt |-> 0, expiresAt |-> 1])
    /\ clock > 1
    /\ ~isPremiumUser("user_1")

\* Whether the record stored for identity u had its expiry in the future when it
\* was written and has expired since.
StoredLapsed(u) ==
    /\ StoredExpired(u)
    /\ premiumStorage[getPremiumStorageKey(u)][1].activatedAt
         < premiumStorage[getPremiumStorageKey(u)][1].expiresAt

\* C14: right after a gate read for an identity no record whose expiry has passed
\* is stored for it, and right after the cleanup of the module load none is
\* stored for any identity.
C14_ExpiredRecordCleared ==
    /\ gateOp.name \in GateReads => ~StoredLapsed(gateOp.userId)
    /\ gateOp.name = "checkExpiredPremium" => \A u \in GateIdentities : ~StoredLapsed(u)

\* C15: the storage keys of distinct identities differ, the guest's included, and
\* a call of activatePremium or deactivatePremium for an identity leaves the
\* stored record and the premium status of every other identity as they were.
C15_PremiumPerIdentity ==
    /\ [](\A u, v \in GateIdentities :
            u # v => getPremiumStorageKey(u) # getPremiumStorageKey(v))
    /\ [][gateOp'.name \in {"activatePremium", "deactivatePremium"}
            => \A v \in GateIdentities \ {gateOp'.userId} :
                 /\ premiumStorage'[getPremiumStorageKey(v)]
                      = premiumStorage[getPremiumStorageKey(v)]
                 /\ isPremiumUser(v)' = isPremiumUser(v)]_vars

C15_Witness ==
    /\ gateOp = [name |-> "deactivatePremium", userId |-> "user_1"]
    /\ premiumStorage[getPremiumStorageKey("user_1")] = None
    /\ isPremiumUser(NoUser)
    /\ isPremiumUser("user_2")

\* C27: for every identity and count, the remaining free entries of an identity
\* that is not premium are FREE_ENTRY_LIMIT - count, or 0 when that is negative,
\* so never below 0; those of a premium identity are unbounded.
C27_RemainingFreeClamped ==
    \A u \in GateIdentities : \A count \in 0..MaxCount :
        LET remaining == getRemainingFreeEntries(count, u)
        IN IF StoredPremiumActive(u)
           THEN remaining = Infinity
           ELSE /\ remaining.finite
                /\ remaining.value >= 0
                /\ remaining.value =
                     (IF count <= FREE_ENTRY_LIMIT THEN FREE_ENTRY_LIMIT - count ELSE 0)

\* C27 witness: the remaining entries were asked for an identity that is not
\* premium, whose count may exceed the limit, while another identity is premium.
C27_Witness ==
    /\ gateOp = [name |-> "getRemainingFreeEntries", userId |-> "user_1"]
    /\ ~StoredPremiumActive("user_1")
    /\ getRemainingFreeEntries(FREE_ENTRY_LIMIT + 1, "user_1") = Finite(0)
    /\ getRemainingFreeEntries(0, "user_1") = Finite(FREE_ENTRY_LIMIT)
    /\ StoredPremiumActive("user_2")
    /\ getRemainingFreeEntries(FREE_ENTRY_LIMIT + 1, "user_2") = Infinity

\* ================================================================== quota
\* The journal pipeline of a guest who already has up to FREE_ENTRY_LIMIT entries
\* and is premium or not. App never calls the subscription utilities.

\* An entry of an earlier pipeline run, with identifier id.
EarlierEntry(id) ==
    NewEntry(id,
             [NoFrame EXCEPT !.voiceId = AVAILABLE_VOICES[1], !.audioBlob = Some(1),
                             !.transcript = "I feel overwhelmed at work",
                             !.analysis = Some([summary |-> Some("s"),
                                                emotions |-> Some(<<Emo("stress", 80),
                                                                    Emo("hope", 30)>>),
                                                topics |-> Some(<<"work", "rest">>),
                                                psychMarkers |->
                                                    Some(<<Marker("rumination", "low")>>),
                                                feedbackText |-> Some("f")])],
             "blob:tts", NoUser)

\* The guest's list after k earlier runs, newest first; their identifiers are
\* 0, -1, ... so that the runs to come draw fresh ones.
EarlierEntries(k) == [i \in 1..k |-> EarlierEntry(1 - i)]

QuotaInit ==
    /\ user = NoUser
    /\ \E k \in 0..FREE_ENTRY_LIMIT :
         /\ entries = EarlierEntries(k)
         /\ selectedEntry = IF k > 0 THEN Some(EarlierEntries(k)[1]) ELSE None
         /\ localStorage = SaveEffect([key \in StorageKeys |-> None], NoUser,
                                      EarlierEntries(k))
    /\ isProcessing = FALSE
    /\ selectedVoiceId = AVAILABLE_VOICES[1]
    /\ isRecording = FALSE
    /\ pc = "idle"
    /\ frame = NoFrame
    /\ calls = <<>>
    /\ alertMsg = ""
    /\ nextId = 1
    /\ CmInit
    /\ PersonaInit
    /\ premiumStorage \in
          {[key \in PremiumKeys |-> IF key = getPremiumStorageKey(NoUser) THEN r ELSE None] :
             r \in {None, Some(PremiumRecord(0, DefaultMonths))}}
    /\ clock = 0
    /\ gateOp = [name |-> "none", userId |-> NoUser]

QuotaNext ==
    \/ StartRecording /\ UNCHANGED <<personaVars, gateVars>>
    \/ \E size \in BlobSizes : StopRecording(size) /\ UNCHANGED <<personaVars, gateVars>>
    \/ \E ok \in BOOLEAN, text \in Transcripts :
         TranscribeDone(ok, text) /\ UNCHANGED <<personaVars, gateVars>>
    \/ \E r \in AnalysisResponses : AnalyzeDone(r) /\ UNCHANGED <<personaVars, gateVars>>
    \/ \E ok \in BOOLEAN : SynthesizeDone(ok) /\ UNCHANGED <<personaVars, gateVars>>

QuotaSpec == QuotaInit /\ [][QuotaNext]_vars

\* The remaining free entries of the active identity, counted on its entries.
RemainingFree == getRemainingFreeEntries(Len(entries), user).value

\* C13: for a non-premium identity a successful pipeline run takes exactly 1 off
\* the remaining free entries, and a failed run leaves them and the number of
\* entries as they were.
C13_RemainingFreeCountsRuns ==
    [][~isPremiumUser(user)
        => /\ Len(entries') = Len(entries) + 1 => RemainingFree' = RemainingFree - 1
           /\ FailStep => /\ RemainingFree' = RemainingFree
                          /\ Len(entries') = Len(entries)]_vars

\* C22: when the identity is not premium and its count is at or above the limit,
\* an invocation whose synthesis does not fail (transcription and analysis have
\* returned before) adds exactly one entry, selects it and stores the list under
\* the identity's key.
C22_PipelineHasNoGate ==
    [][(/\ hasReachedLimit(Len(entries), user)
        /\ pc = "synthesizing" /\ pc' = "idle"
        /\ alertMsg' # "TTS failed")
        => /\ Len(entries') = Len(entries) + 1
           /\ Tail(entries') = entries
           /\ selectedEntry' = Some(entries'[1])
           /\ localStorage'[getStorageKey(user)] = Some(entries')]_vars

\* C22 witness: a guest who is not premium holds one entry more than the limit.
C22_Witness ==
    /\ ~isPremiumUser(user)
    /\ hasReachedLimit(FREE_ENTRY_LIMIT, user)
    /\ Len(entries) = FREE_ENTRY_LIMIT + 1
    /\ entries[1].id = 1
    /\ localStorage[getStorageKey(user)] = Some(entries)
    /\ pc = "idle"

\* ------------------------------------------------ more claims on ConvSpec

\* The entry with identifier id in list es.
EntryById(es, id) == es[CHOOSE i \in DOMAIN es : es[i].id = id]

\* C16: when conversation mode is opened on an entry without a conversation, the
\* entry is persisted with exactly one assistant turn that carries its
\* feedbackText, feedbackAudioUrl and createdAt, and nothing else changes in the
\* collection; when it is opened on an entry with a non-empty conversation,
\* nothing is updated and the conversation shown is the entry's.
C16_SeedingOnceOnly ==
    [][(~showConversation /\ showConversation')
        => LET e == EntryProp
           IN IF e.conversation # None /\ Len(e.conversation[1]) > 0
              THEN /\ UNCHANGED <<entries, selectedEntry, localStorage>>
                   /\ conversationHistory' = e.conversation[1]
              ELSE /\ EntryById(entries', e.id).conversation
                        = Some(<<[role |-> "assistant", text |-> e.feedbackText,
                                  audioUrl |-> e.feedbackAudioUrl,
                                  timestamp |-> e.createdAt]>>)
                   /\ \A i \in DOMAIN entries :
                        entries[i].id # e.id => entries'[i] = entries[i]
                   /\ Len(entries') = Len(entries)
                   /\ localStorage'[getStorageKey(user)] = Some(entries')]_vars

C16_Witness ==
    /\ showConversation
    /\ okRounds[EntryProp.id] = 1
    /\ Len(Conv(EntryProp)) = 3
    /\ conversationHistory = Conv(EntryProp)
    /\ rounds = <<>>
    /\ \A i \in DOMAIN entries : entries[i].conversation # None
    /\ \E i \in DOMAIN entries : Len(Conv(entries[i])) = 1

\* C17: for every entry, the length of its conversation never decreases.
C17_LengthNeverDecreases ==
    [][\A i \in DOMAIN entries :
         Len(Conv(EntryById(entries', entries[i].id))) >= Len(Conv(entries[i]))]_vars

\* The entries that rounds in flight will write to.
InFlight(id) == {i \in DOMAIN rounds : rounds[i].entry.id = id}

\* C18: at most one round is in flight per entry.
C18_OneRoundPerEntry ==
    \A id \in 1..MaxEntries : Cardinality(InFlight(id)) <= 1

\* ---------------------------------------------------- more claims on Spec

\* C19: an invocation of handleRecordingComplete is running exactly while
\* isProcessing is set; while it is set no recording is in progress and none is
\* started, so no second invocation begins before the running one has ended.
C19_SinglePipelineInFlight ==
    /\ [](pc # "idle" <=> isProcessing)
    /\ [](isProcessing => ~isRecording)
    /\ [][isProcessing => ~isRecording']_vars
    /\ [][(isProcessing /\ isProcessing')
            => /\ frame'.audioBlob = frame.audioBlob
               /\ frame'.voiceId = frame.voiceId]_vars

C19_Witness ==
    /\ isProcessing
    /\ pc = "analyzing"
    /\ Len(entries) = 1
    /\ ~isRecording

\* The requests of one invocation, in the order the stages issue them.
StageOrder == <<"speech-to-text", "analysis", "text-to-speech">>

\* The ids of the entries that exist, in the state or in storage.
KnownIds ==
    {entries[i].id : i \in DOMAIN entries}
        \cup UNION {{Stored(k)[i].id : i \in DOMAIN Stored(k)} : k \in StorageKeys}

\* C20: the requests of an invocation are issued in the order transcription,
\* analysis, synthesis, each once and each after the stage before it returned;
\* the position only moves forward or ends; and an entry that did not exist
\* before is added only by the step in which synthesis returned.
C20_StagesInOrder ==
    /\ [](/\ IsPrefix(calls, StageOrder)
          /\ pc = "transcribing" => calls = SubSeq(StageOrder, 1, 1)
          /\ pc = "analyzing" => calls = SubSeq(StageOrder, 1, 2)
          /\ pc = "synthesizing" => calls = StageOrder)
    /\ [][pc' # pc => <<pc, pc'>> \in {<<"idle", "transcribing">>,
                                      <<"transcribing", "analyzing">>,
                                      <<"analyzing", "synthesizing">>,
                                      <<"transcribing", "idle">>,
                                      <<"analyzing", "idle">>,
                                      <<"synthesizing", "idle">>}]_vars
    /\ [][(\E i \in DOMAIN entries' : entries'[i].id \notin KnownIds)
            => /\ pc = "synthesizing" /\ pc' = "idle"
               /\ calls' = StageOrder
               /\ Len(entries') = Len(entries) + 1]_vars

C20_Witness ==
    /\ pc = "idle"
    /\ calls = StageOrder
    /\ alertMsg = ""
    /\ Len(entries) = MaxEntries
    /\ selectedEntry = Some(entries[1])

\* ================================================== analysis instructions
\* analyzeTranscript(transcript, voiceId, customPersona) of src/src/utils/api.ts:
\* the instruction text and feedback guidance of its request.

\* The instruction and the guidance analyzeTranscript uses when no persona is found.
GenericSystemPrompt ==
    Some("You are an empathetic AI therapist providing emotional insights from journal entries.")
GenericFeedbackGuidance == <<"Provide gentle, supportive feedback.">>

\* `Write feedback in character as ${name}. ${feedbackStyle}.`
InCharacter(persona) == <<"Write feedback in character as", persona.name, persona.feedbackStyle>>

\* An analyzeTranscript that looks the voice up before it looks at customPersona.
analyzeTranscriptBuiltInFirst(voiceId, customPersona) ==
    IF voiceId \in DOMAIN VOICE_PERSONAS
    THEN [systemPrompt |-> VOICE_PERSONAS[voiceId].systemPrompt,
          feedbackGuidance |-> InCharacter(VOICE_PERSONAS[voiceId])]
    ELSE IF customPersona # None
    THEN [systemPrompt |-> customPersona[1].systemPrompt,
          feedbackGuidance |-> InCharacter(customPersona[1])]
    ELSE [systemPrompt |-> GenericSystemPrompt, feedbackGuidance |-> GenericFeedbackGuidance]

\* analyzeTranscript up to its request: customPersona if given, else the built-in
\* persona of voiceId, else the generic instruction and guidance.
analyzeTranscript(voiceId, customPersona) ==
    IF customPersona # None
    THEN [systemPrompt |-> customPersona[1].systemPrompt,
          feedbackGuidance |-> InCharacter(customPersona[1])]
    ELSE IF voiceId \in DOMAIN VOICE_PERSONAS
    THEN [systemPrompt |-> VOICE_PERSONAS[voiceId].systemPrompt,
          feedbackGuidance |-> InCharacter(VOICE_PERSONAS[voiceId])]
    ELSE [systemPrompt |-> GenericSystemPrompt, feedbackGuidance |-> GenericFeedbackGuidance]

\* The AVAILABLE_VOICES of the first half of api.ts: VOICE_PERSONAS has no entry
\* for them.
EarlierVoices == <<"keLVje3aBMuRpxuu0bqO", "hUCL5yChll0oZqA0wCKH">>

\* Voice ids analyzeTranscript is called with.
AnalyzedVoiceIds ==
    DOMAIN VOICE_PERSONAS \cup {EarlierVoices[i] : i \in DOMAIN EarlierVoices} \cup {""}

\* The customPersona arguments analyzeTranscript is called with: none, or the
\* name, systemPrompt and feedbackStyle of a persona.
CustomPersonaArgs ==
    {None} \cup
    {Some([name |-> n, systemPrompt |-> Some("sp"), feedbackStyle |-> f]) :
        n \in {Some("Sage"), Some("Adam")}, f \in {Some("fs"), None}}

\* The arguments and locals of a call of analyzeTranscript.
AnalyzeFrame(t, v, c) ==
    [audioBlob |-> None, voiceId |-> v, transcript |-> t, analysis |-> None,
     customPersona |-> c, request |-> None]

\* A call of analyzeTranscript is about to be made with some arguments.
AnalyzeInit ==
    /\ user = NoUser
    /\ entries = <<>>
    /\ selectedEntry = None
    /\ isProcessing = TRUE
    /\ selectedVoiceId = AVAILABLE_VOICES[1]
    /\ localStorage = [k \in StorageKeys |-> None]
    /\ isRecording = FALSE
    /\ pc = "transcribing"
    /\ \E t \in Transcripts, v \in AnalyzedVoiceIds, c \in CustomPersonaArgs :
            frame = AnalyzeFrame(t, v, c)
    /\ calls = <<"speech-to-text">>
    /\ alertMsg = ""
    /\ nextId = 1
    /\ CmInit
    /\ PersonaInit
    /\ GateInit

\* analyzeTranscript is called and issues its request.
analyzeTranscriptCall ==
    /\ pc = "transcribing"
    /\ pc' = "analyzing"
    /\ frame' = [frame EXCEPT !.request = Some(analyzeTranscript(frame.voiceId,
                                                                   frame.customPersona))]
    /\ calls' = Append(calls, "analysis")
    /\ UNCHANGED <<user, entries, selectedEntry, isProcessing, selectedVoiceId,
                   localStorage, isRecording, alertMsg, nextId>>
    /\ UNCHANGED <<cmVars, ghostVars, personaVars, gateVars>>

\* analyzeTranscript resumes with the response: it throws on a failed status or on
\* content that is no JSON, and returns the parsed object otherwise.
analyzeTranscriptReturn(r) ==
    /\ pc = "analyzing"
    /\ frame.request # None
    /\ IF ~r.ok
       THEN alertMsg' = "OpenAI analysis failed" /\ pc' = "idle" /\ UNCHANGED frame
       ELSE IF ~r.json
       THEN alertMsg' = "SyntaxError" /\ pc' = "idle" /\ UNCHANGED frame
       ELSE /\ frame' = [frame EXCEPT !.analysis = r.body]
            /\ pc' = "synthesizing"
            /\ UNCHANGED alertMsg
    /\ UNCHANGED <<user, entries, selectedEntry, isProcessing, selectedVoiceId,
                   localStorage, isRecording, calls, nextId>>
    /\ UNCHANGED <<cmVars, ghostVars, personaVars, gateVars>>

AnalyzeNext ==
    \/ analyzeTranscriptCall
    \/ \E r \in AnalysisResponses : analyzeTranscriptReturn(r)

AnalyzeSpec == AnalyzeInit /\ [][AnalyzeNext]_vars

\* C29: with no customPersona and a voiceId that has no built-in persona, the
\* request carries the generic therapist instruction and the generic guidance,
\* and the call goes on to return whatever object the service answered; with a
\* customPersona the request carries its systemPrompt and its feedback style,
\* whatever the voiceId.
C29_PersonaResolution ==
    /\ [](frame.request # None =>
            /\ (frame.customPersona = None /\ frame.voiceId \notin DOMAIN VOICE_PERSONAS)
                => /\ frame.request[1].systemPrompt = GenericSystemPrompt
                   /\ frame.request[1].feedbackGuidance = GenericFeedbackGuidance
            /\ frame.customPersona # None
                => /\ frame.request[1].systemPrompt = frame.customPersona[1].systemPrompt
                   /\ frame.request[1].feedbackGuidance
                        = <<"Write feedback in character as", frame.customPersona[1].name,
                            frame.customPersona[1].feedbackStyle>>)
    /\ [][(pc = "transcribing" /\ frame.customPersona = None
             /\ frame.voiceId \notin DOMAIN VOICE_PERSONAS)
            => (pc' = "analyzing" /\ alertMsg' = "")]_vars
    /\ [](alertMsg # "" => alertMsg \in {"OpenAI analysis failed", "SyntaxError"})

\* C29 witness: an unknown voice id without a custom persona went through with the
\* generic instruction.
C29_Witness ==
    /\ pc = "synthesizing"
    /\ frame.customPersona = None
    /\ frame.voiceId = EarlierVoices[1]
    /\ frame.request[1].systemPrompt = GenericSystemPrompt
    /\ frame.analysis # None

\* C29, second case: a custom persona was given together with the voice id of a
\* built-in persona.
C29_WitnessCustom ==
    /\ pc = "synthesizing"
    /\ frame.customPersona # None
    /\ frame.voiceId \in DOMAIN VOICE_PERSONAS
    /\ frame.request[1].systemPrompt = Some("sp")

\* ============================================= the persona app's pipeline
\* handleRecordingComplete of the app with custom personas (src/unnamed/part_002),
\* which stores its entries under one key.

\* STORAGE_KEY of the persona app.
STORAGE_KEY == <<"mindpebbles_entries", "">>

\* AVAILABLE_VOICES.find(v => v.id === id)?.name || 'Unknown'.
AvailableVoiceName(id) ==
    IF id = AVAILABLE_VOICES[1] THEN "Adam (Deep, American)"
    ELSE IF id = AVAILABLE_VOICES[2] THEN "Sarah (Calm, Soft)"
    ELSE "Unknown"

\* a || b on strings: b when a is undefined or empty.
OrElse(a, b) == IF a # None /\ a[1] # "" THEN a[1] ELSE b

\* A custom persona that a PersonaCreator registered earlier; the voice service
\* named its permanent voice "voice_1".
RegisteredPersona ==
    [id |-> 0, name |-> Some("Sage"), personality |-> Some("calm"),
     systemPrompt |-> Some("sp"), feedbackStyle |-> Some("fs"),
     voiceId |-> "voice_1", createdAt |-> 0, isCustom |-> TRUE]

\* The persona app after its mount effects loaded one stored persona.
JournalInit ==
    /\ user = NoUser
    /\ entries = <<>>
    /\ selectedEntry = None
    /\ isProcessing = FALSE
    /\ selectedVoiceId = AVAILABLE_VOICES[1]
    /\ localStorage = [k \in StorageKeys \cup {STORAGE_KEY} |-> None]
    /\ isRecording = FALSE
    /\ pc = "idle"
    /\ frame = NoFrame
    /\ calls = <<>>
    /\ alertMsg = ""
    /\ nextId = 1
    /\ CmInit
    /\ customPersonas = <<RegisteredPersona>>
    /\ selectedPersona = None
    /\ showPersonaCreator = FALSE
    /\ personaStore = Some(customPersonas)
    /\ CreatorInit
    /\ genRuns = 0
    /\ voiceLibrary = {}
    /\ createdCalls = 0
    /\ discarded = {}
    /\ GateInit

\* What the pipeline of the persona app leaves alone.
outsideJournal == <<user, selectedVoiceId, nextId, cmVars, ghostVars, personaVars, gateVars>>

\* Recorder.startRecording: mediaRecorder.onstop keeps the onRecordingComplete of
\* this render, with its selectedVoiceId and selectedPersona.
JournalStartRecording ==
    /\ ~isProcessing
    /\ ~isRecording
    /\ nextId <= MaxEntries
    /\ isRecording' = TRUE
    /\ frame' = [audioBlob |-> None, voiceId |-> selectedVoiceId, transcript |-> "",
                 analysis |-> None, selectedPersona |-> selectedPersona,
                 request |-> None, voiceIdForTTS |-> ""]
    /\ calls' = <<>>
    /\ alertMsg' = ""
    /\ UNCHANGED <<user, entries, selectedEntry, isProcessing, selectedVoiceId,
                   localStorage, pc, nextId>>
    /\ UNCHANGED <<cmVars, ghostVars, personaVars, gateVars>>

\* The catch and finally blocks of handleRecordingComplete.
JournalFail(msg) ==
    /\ alertMsg' = msg
    /\ isProcessing' = FALSE
    /\ pc' = "idle"
    /\ UNCHANGED <<entries, selectedEntry, localStorage, outsideJournal>>

\* Recorder.stopRecording and handleRecordingComplete(audioBlob) up to its first
\* await.
JournalStopRecording(size) ==
    /\ isRecording
    /\ ~isProcessing
    /\ isRecording' = FALSE
    /\ frame' = [frame EXCEPT !.audioBlob = Some(size)]
    /\ IF BlobIsEmpty(size)
       THEN /\ JournalFail("Audio blob is empty")
            /\ UNCHANGED calls
       ELSE /\ isProcessing' = TRUE
            /\ pc' = "transcribing"
            /\ calls' = Append(calls, "speech-to-text")
            /\ UNCHANGED <<entries, selectedEntry, localStorage, alertMsg, outsideJournal>>

\* selectedPersona?.voiceId || selectedVoiceId.
PersonaVoiceOr(f) ==
    IF f.selectedPersona # None
    THEN OrElse(Some(f.selectedPersona[1].voiceId), f.voiceId)
    ELSE f.voiceId

\* The customPersona argument handleRecordingComplete passes to analyzeTranscript.
CustomPersonaArg(f) ==
    IF f.selectedPersona # None
    THEN Some([name |-> f.selectedPersona[1].name,
               systemPrompt |-> f.selectedPersona[1].systemPrompt,
               feedbackStyle |-> f.selectedPersona[1].feedbackStyle])
    ELSE None

\* transcribeAudio resumes; on success analyzeTranscript issues its request.
JournalTranscribeDone(ok, text) ==
    /\ pc = "transcribing"
    /\ UNCHANGED isRecording
    /\ IF ~ok
       THEN JournalFail("STT failed") /\ UNCHANGED <<calls, frame>>
       ELSE /\ pc' = "analyzing"
            /\ frame' = [frame EXCEPT
                            !.transcript = text,
                            !.request = Some(analyzeTranscript(PersonaVoiceOr(frame),
                                                               CustomPersonaArg(frame)))]
            /\ calls' = Append(calls, "analysis")
            /\ UNCHANGED <<entries, selectedEntry, isProcessing, localStorage, alertMsg,
                           outsideJournal>>

\* analyzeTranscript resumes; on success generateSpeech issues its request for
\* voiceIdForTTS.
JournalAnalyzeDone(r) ==
    /\ pc = "analyzing"
    /\ UNCHANGED isRecording
    /\ IF ~r.ok
       THEN JournalFail("OpenAI analysis failed") /\ UNCHANGED <<calls, frame>>
       ELSE IF ~r.json
       THEN JournalFail("SyntaxError") /\ UNCHANGED <<calls, frame>>
       ELSE /\ pc' = "synthesizing"
            /\ frame' = [frame EXCEPT !.analysis = r.body,
                                      !.voiceIdForTTS = PersonaVoiceOr(frame)]
            /\ calls' = Append(calls, "text-to-speech")
            /\ UNCHANGED <<entries, selectedEntry, isProcessing, localStorage, alertMsg,
                           outsideJournal>>

\* The JournalEntry of the persona app: voiceId is selectedPersona?.name ||
\* AVAILABLE_VOICES.find(v => v.id === selectedVoiceId)?.name || 'Unknown'.
JournalEntry(id, f, audioUrl) ==
    [NewEntry(id, f, audioUrl, NoUser) EXCEPT
        !.voiceId = IF f.selectedPersona # None
                    THEN OrElse(f.selectedPersona[1].name, AvailableVoiceName(f.voiceId))
                    ELSE AvailableVoiceName(f.voiceId)]

\* generateSpeech resumes; on success the entry is assembled, prepended and
\* selected, and the save effect writes the list under STORAGE_KEY.
JournalSynthesizeDone(ok) ==
    /\ pc = "synthesizing"
    /\ UNCHANGED <<isRecording, calls, frame>>
    /\ IF ~ok
       THEN JournalFail("TTS failed")
       ELSE LET newEntry == JournalEntry(nextId, frame, "blob:tts")
            IN /\ entries' = <<newEntry>> \o entries
               /\ selectedEntry' = Some(newEntry)
               /\ localStorage' = [localStorage EXCEPT ![STORAGE_KEY] = Some(entries')]
               /\ nextId' = nextId + 1
               /\ isProcessing' = FALSE
               /\ pc' = "idle"
               /\ UNCHANGED <<user, selectedVoiceId, alertMsg>>
               /\ UNCHANGED <<cmVars, ghostVars, personaVars, gateVars>>

\* The selector of the persona app offers the built-in voices and the custom
\* personas.
JournalSelect ==
    /\ \/ \E i \in DOMAIN customPersonas : handlePersonaChange("custom", customPersonas[i].id)
       \/ \E v \in VoiceIds : handlePersonaChange("voice", v)
    /\ <<selectedPersona, selectedVoiceId>>' # <<selectedPersona, selectedVoiceId>>

JournalNext ==
    \/ JournalSelect
    \/ JournalStartRecording
    \/ \E size \in BlobSizes : JournalStopRecording(size)
    \/ \E ok \in BOOLEAN, text \in Transcripts : JournalTranscribeDone(ok, text)
    \/ \E r \in AnalysisResponses : JournalAnalyzeDone(r)
    \/ \E ok \in BOOLEAN : JournalSynthesizeDone(ok)

JournalSpec == JournalInit /\ [][JournalNext]_vars

\* C21: the voiceId of an entry a run creates is the voice identifier that run
\* passed to speech synthesis.
C21_EntryVoiceIsSynthesisVoice ==
    [][Len(entries') > Len(entries) => entries'[1].voiceId = frame.voiceIdForTTS]_vars

\* -------------------------------------------- conversation rounds, claims

\* The turns of sequence h that the user spoke.
UserTurns(h) == {n \in DOMAIN h : h[n].role = "user"}

\* A step at which a round fails: it ends without having completed, or it is
\* refused for its empty recording.
RoundFailStep ==
    \/ Len(rounds') < Len(rounds) /\ okRounds' = okRounds
    \/ roundsStarted' > roundsStarted /\ rounds' = rounds

\* C26: a round that fails leaves the entries and the persisted collections as
\* they were, and no persisted conversation holds more user turns than rounds
\* have completed on its entry: the user turn of a failed round is in none.
C26_FailedRoundCommitsNothing ==
    /\ [][RoundFailStep => UNCHANGED <<entries, localStorage>>]_vars
    /\ [](\A k \in StorageKeys : \A n \in DOMAIN Stored(k) :
            Cardinality(UserTurns(Conv(Stored(k)[n]))) <= okRounds[Stored(k)[n].id])

\* C28: when a round goes on from transcription to the reply, the history it
\* passes to continueConversation is the turn sequence it held before, mapped
\* to role/content pairs and without the user turn it has just appended; the
\* user text is the separate argument, and the messages sent are the system
\* message, that history and the user text, once, at the end.
C28_HistoryExcludesCurrentTurn ==
    [][\A i \in DOMAIN rounds :
        (/\ Len(rounds') = Len(rounds)
         /\ rounds[i].stage = "transcribing"
         /\ rounds'[i].stage = "replying")
        => LET before == rounds[i].history
               after == rounds'[i].history
               req == rounds'[i].request[1]
           IN /\ after = Append(before, after[Len(after)])
              /\ after[Len(after)].role = "user"
              /\ req.conversationHistory = ApiHistory(before)
              /\ req.userMessage = after[Len(after)].text
              /\ Len(req.messages) = Len(before) + 2
              /\ SubSeq(req.messages, 2, Len(before) + 1) = ApiHistory(before)
              /\ req.messages[Len(req.messages)]
                    = [role |-> "user", content |-> req.userMessage]]_vars

\* C28 witness: the second round of an entry has issued its request with the four
\* turns held before it.
C28_Witness ==
    \E i \in DOMAIN rounds :
        /\ rounds[i].stage = "replying"
        /\ Len(rounds[i].history) = 5
        /\ okRounds[rounds[i].entry.id] = 1
        /\ Len(rounds[i].request[1].conversationHistory) = 4
        /\ Len(rounds[i].request[1].messages) = 6

\* ------------------------------------------- termination of the handlers
\* A request of the running handleRecordingComplete returns or throws.
PipelineReturns ==
    \/ \E ok \in BOOLEAN, text \in Transcripts : TranscribeDone(ok, text)
    \/ \E r \in AnalysisResponses : AnalyzeDone(r)
    \/ \E ok \in BOOLEAN : SynthesizeDone(ok)

\* The request of round i of handleUserMessage returns or throws.
RoundReturns(i) ==
    \/ \E ok \in BOOLEAN : CmTranscribeDone(i, ok)
    \/ \E ok \in BOOLEAN : CmReplyDone(i, ok)
    \/ \E ok \in BOOLEAN : CmSpeechDone(i, ok)

\* The recorder of the app and the conversation mode of its insight card,
\* side by side.
LiveNext ==
    \/ StartRecording /\ UNCHANGED <<personaVars, gateVars>>
    \/ \E size \in BlobSizes : StopRecording(size) /\ UNCHANGED <<personaVars, gateVars>>
    \/ \E ok \in BOOLEAN, text \in Transcripts : TranscribeDone(ok, text) /\ UNCHANGED <<personaVars, gateVars>>
    \/ \E r \in AnalysisResponses : AnalyzeDone(r) /\ UNCHANGED <<personaVars, gateVars>>
    \/ \E ok \in BOOLEAN : SynthesizeDone(ok) /\ UNCHANGED <<personaVars, gateVars>>
    \/ OpenConversation /\ UNCHANGED <<personaVars, gateVars>>
    \/ CloseConversation /\ UNCHANGED <<personaVars, gateVars>>
    \/ CmStartRecording /\ UNCHANGED <<personaVars, gateVars>>
    \/ \E size \in BlobSizes : CmStopRecording(size) /\ UNCHANGED <<personaVars, gateVars>>
    \/ \E i \in 1..MaxRounds, ok \in BOOLEAN : CmTranscribeDone(i, ok) /\ UNCHANGED <<personaVars, gateVars>>
    \/ \E i \in 1..MaxRounds, ok \in BOOLEAN : CmReplyDone(i, ok) /\ UNCHANGED <<personaVars, gateVars>>
    \/ \E i \in 1..MaxRounds, ok \in BOOLEAN : CmSpeechDone(i, ok) /\ UNCHANGED <<personaVars, gateVars>>

\* Every request that is in flight gets its response, or its error, in the end.
LiveSpec ==
    /\ Init
    /\ [][LiveNext]_vars
    /\ WF_vars(PipelineReturns /\ UNCHANGED <<personaVars, gateVars>>)
    /\ \A i \in 1..MaxRounds : WF_vars(RoundReturns(i) /\ UNCHANGED <<personaVars, gateVars>>)

\* A step at which the invocation of handleRecordingComplete ends: after a
\* response, or at once for an empty recording.
PipelineEndStep ==
    \/ pc # "idle" /\ pc' = "idle"
    \/ isRecording /\ ~isRecording' /\ pc = "idle" /\ pc' = "idle"

\* A step at which a round of a mounted conversation mode ends: after a response,
\* or at once for an empty recording.
LiveRoundEndStep ==
    \/ \E i \in DOMAIN rounds : rounds[i].live /\ rounds' = RemoveAt(rounds, i)
    \/ roundsStarted' > roundsStarted /\ rounds' = rounds

\* C30: when every request returns or throws, a handleRecordingComplete that has
\* started ends and every round of handleUserMessage that has started ends; the
\* step that ends one leaves the isProcessing of its component false, whether it
\* succeeded or failed, and a flag that is set is cleared again.
C30_HandlersEndAndClearFlag ==
    /\ [][PipelineEndStep => ~isProcessing']_vars
    /\ [][LiveRoundEndStep => ~cmIsProcessing']_vars
    /\ (pc # "idle") ~> (pc = "idle" /\ ~isProcessing)
    /\ (rounds # <<>>) ~> (rounds = <<>>)
    /\ isProcessing ~> ~isProcessing
    /\ cmIsProcessing ~> ~cmIsProcessing

\* C30 witness: a pipeline run has stored its entry, and in the conversation on
\* it one round has completed and another has failed; nothing is in flight
\* and both flags are false.
C30_Witness ==
    /\ nextId > 1
    /\ pc = "idle"
    /\ ~isProcessing
    /\ showConversation
    /\ \E id \in DOMAIN okRounds : okRounds[id] >= 1
    /\ alertMsg = "Failed to process message"
    /\ rounds = <<>>
    /\ ~cmIsProcessing

\* ------------------------------------------- conversations and selection
\* C31: a persisted conversation holds only its own entry's turns: a turn in it
\* that is the seed of a stored entry is the seed of the entry it is stored in,
\* whatever is selected in the timeline while conversation mode is open.
C31_ConversationHoldsOwnTurns ==
    \A k \in StorageKeys : \A n \in DOMAIN Stored(k) :
        LET e == Stored(k)[n]
        IN \A t \in DOMAIN Conv(e) :
               (\E m \in DOMAIN Stored(k) : Conv(e)[t] = SeedTurn(Stored(k)[m]))
               => Conv(e)[t] = SeedTurn(e)

\* ------------------------------------------------------------ the upgrade
\* UpgradeModal.handleUpgrade for the signed-in identity u (useUser().user), in
\* demo mode, the user having confirmed: createCheckoutSession gets the e-mail
\* address only, calls activatePremium() without a userId, and loads the page
\* anew.
handleUpgrade(u) ==
    /\ premiumStorage' =
          AfterCheckExpired([premiumStorage EXCEPT ![getPremiumStorageKey(NoUser)] =
                                Some(PremiumRecord(clock, DefaultMonths))])
    /\ gateOp' = [name |-> "createCheckoutSession", userId |-> u]
    /\ Reload
    /\ UNCHANGED <<clock, personaVars>>

\* The subscription utilities and the upgrade dialog.
UpgradeNext ==
    \/ GateNext
    \/ \E u \in GateIdentities : handleUpgrade(u)

UpgradeSpec == GateSpecInit /\ [][UpgradeNext]_vars

\* C32: right after the demo checkout an identity has confirmed, isPremiumUser
\* is true for that identity: a signed-in user is premium under their own key.
C32_CheckoutMakesCallerPremium ==
    gateOp.name = "createCheckoutSession" => isPremiumUser(gateOp.userId)

\* ------------------------------------------------------------ a session
\* The rounds of handleUserMessage a session starts.
MaxSessionRounds == 1

\* The app with its recorder, its timeline, the conversation mode of its insight
\* card and the identity changing underneath.
SessionNext ==
    \/ StartRecording /\ UNCHANGED <<personaVars, gateVars>>
    \/ \E size \in BlobSizes : StopRecording(size) /\ UNCHANGED <<personaVars, gateVars>>
    \/ \E ok \in BOOLEAN, text \in Transcripts : TranscribeDone(ok, text) /\ UNCHANGED <<personaVars, gateVars>>
    \/ \E r \in AnalysisResponses : AnalyzeDone(r) /\ UNCHANGED <<personaVars, gateVars>>
    \/ \E ok \in BOOLEAN : SynthesizeDone(ok) /\ UNCHANGED <<personaVars, gateVars>>
    \/ \E u \in Identities : UserChange(u) /\ UNCHANGED <<personaVars, gateVars>>
    \/ \E id \in 1..MaxEntries : handleSelectEntry(id) /\ UNCHANGED <<personaVars, gateVars>>
    \/ OpenConversation /\ UNCHANGED <<personaVars, gateVars>>
    \/ CloseConversation /\ UNCHANGED <<personaVars, gateVars>>
    \/ roundsStarted < MaxSessionRounds /\ CmStartRecording /\ UNCHANGED <<personaVars, gateVars>>
    \/ \E size \in BlobSizes : CmStopRecording(size) /\ UNCHANGED <<personaVars, gateVars>>
    \/ \E i \in 1..MaxSessionRounds, ok \in BOOLEAN : CmTranscribeDone(i, ok) /\ UNCHANGED <<personaVars, gateVars>>
    \/ \E i \in 1..MaxSessionRounds, ok \in BOOLEAN : CmReplyDone(i, ok) /\ UNCHANGED <<personaVars, gateVars>>
    \/ \E i \in 1..MaxSessionRounds, ok \in BOOLEAN : CmSpeechDone(i, ok) /\ UNCHANGED <<personaVars, gateVars>>

SessionSpec == Init /\ [][SessionNext]_vars

\* C33: the selected entry is null, or it is one of the entries of the list.
C33_SelectedEntryInList ==
    selectedEntry = None \/ \E i \in DOMAIN entries : entries[i] = selectedEntry[1]

\* A step at which handleUpdateEntry is called: conversation mode opens on an
\* entry without a conversation, or a round completes. The entry it is called
\* with is the one it selects.
UpdateEntryStep ==
    \/ ~showConversation /\ showConversation' /\ ~HasConversation(selectedEntry[1])
    \/ okRounds' # okRounds

\* C34: handleUpdateEntry puts the updated entry in the place of the entry with
\* its id, of which there is one at most, and leaves every other entry, the
\* length and the order of the list as they were; when no entry has that id the
\* list is unchanged.
C34_UpdateReplacesInPlace ==
    [][UpdateEntryStep =>
        LET updatedEntry == selectedEntry'[1]
            same == {i \in DOMAIN entries : entries[i].id = updatedEntry.id}
        IN /\ Len(entries') = Len(entries)
           /\ Cardinality(same) <= 1
           /\ \A i \in same : entries'[i] = updatedEntry
           /\ \A i \in DOMAIN entries \ same : entries'[i] = entries[i]
           /\ same = {} => entries' = entries]_vars

\* C34 witness: a round has completed on the older of two entries, which holds
\* its three turns in its place behind the newer one, and the newer one is as it
\* was.
C34_Witness ==
    /\ Len(entries) = 2
    /\ entries[1].id = 2
    /\ entries[1].conversation = None
    /\ entries[2].id = 1
    /\ Len(Conv(entries[2])) = 3
    /\ okRounds[1] = 1
    /\ selectedEntry = Some(entries[2])

\* ------------------------------------------------- the list of entries
\* C35: the step in which a pipeline run succeeds puts one new entry at the
\* front of the list and selects it; the entries the list held follow it,
\* unmodified and in their order; and the list is ordered newest first.
C35_NewEntryAtFront ==
    /\ [][nextId' > nextId =>
            /\ Len(entries') = Len(entries) + 1
            /\ Tail(entries') = entries
            /\ \A i \in DOMAIN entries : entries[i].id # entries'[1].id
            /\ selectedEntry' = Some(entries'[1])]_vars
    /\ [](\A i \in 1..(Len(entries) - 1) :
            entries[i].createdAt > entries[i + 1].createdAt)

\* C35 witness: a run has succeeded for a guest who had two entries, and its
\* entry stands selected before them.
C35_Witness ==
    /\ pc = "idle"
    /\ Len(entries) = 3
    /\ entries[1].id = 1
    /\ entries[2].id = 0
    /\ entries[3].id = -1
    /\ selectedEntry = Some(entries[1])

\* ------------------------------------------------ the two premium reads
\* The instants the records and the clock of InfoSpec take.
MaxInstant == 5

\* The records a read can find: premium or not, with any expiry.
StoredRecords ==
    {[isPremium |-> p, activatedAt |-> 0, expiresAt |-> t] :
        p \in BOOLEAN, t \in 0..MaxInstant}

\* One identity has a record, or none has, and it is any time of day.
InfoInit ==
    /\ AppInit /\ CmInit /\ PersonaInit
    /\ \E u \in GateIdentities, r \in {None} \cup {Some(x) : x \in StoredRecords} :
          premiumStorage = [k \in PremiumKeys |->
                               IF k = getPremiumStorageKey(u) THEN r ELSE None]
    /\ clock \in 0..MaxInstant
    /\ gateOp = [name |-> "none", userId |-> NoUser]

\* The premium status is read for an identity, in one way or the other.
InfoNext ==
    \/ \E u \in GateIdentities : GateRead("isPremiumUser", u)
    \/ \E u \in GateIdentities : GateRead("getSubscriptionInfo", u)

InfoSpec == InfoInit /\ [][InfoNext]_vars

\* C36: for every identity, stored record and time, getSubscriptionInfo reports
\* premium exactly when isPremiumUser does; when it does, at least one day
\* remains; and the days remaining are never negative.
C36_PremiumReadsAgree ==
    \A u \in GateIdentities :
        LET info == getSubscriptionInfo(u)
        IN /\ info.isPremium = isPremiumUser(u)
           /\ info.isPremium => info.daysRemaining[1] >= 1
           /\ info.daysRemaining # None => info.daysRemaining[1] >= 0

\* C36 witness: getSubscriptionInfo has been read for an identity whose premium
\* expires in less than a day: one day remains.
C36_Witness ==
    /\ gateOp = [name |-> "getSubscriptionInfo", userId |-> "user_1"]
    /\ isPremiumUser("user_1")
    /\ premiumStorage[getPremiumStorageKey("user_1")][1].expiresAt - clock < DAY
    /\ getSubscriptionInfo("user_1").daysRemaining = Some(1)

\* ------------------------------------------------- the persona preview
\* C37: while the creator shows the Preview step, the generated persona and the
\* preview voice are both there and come from the same generation run; a
\* confirmation closes over such a pair, and the voice it makes permanent is the
\* preview designed in the run of the persona it builds.
C37_PreviewPairFromOneRun ==
    /\ []((showPersonaCreator /\ currentStep = "preview")
            => /\ generatedPersona # None
               /\ generatedVoice # None
               /\ generatedVoice[1].voiceId = PreviewVoiceId(generatedPersona[1].run))
    /\ [](pcGen = "createVoiceFromPreview"
            => /\ genFrame[1].generatedPersona = generatedPersona
               /\ genFrame[1].generatedVoice = generatedVoice
               /\ genFrame[1].generatedVoice[1].voiceId
                     = PreviewVoiceId(genFrame[1].generatedPersona[1].run))
    /\ [][voiceLibrary' # voiceLibrary
            => voiceLibrary' = voiceLibrary \cup
                  {PermanentVoiceId(PreviewVoiceId(genFrame[1].generatedPersona[1].run))}]_vars

\* C37 witness: the first run ended when voice design failed, and the Preview
\* step shows the persona and the voice of the second run.
C37_Witness ==
    /\ showPersonaCreator
    /\ currentStep = "preview"
    /\ ~isGenerating
    /\ genRuns = 2
    /\ discarded = {}
    /\ generatedPersona # None
    /\ generatedPersona[1].run = 2
    /\ generatedVoice = Some([voiceId |-> PreviewVoiceId(2), previewAudioUrl |-> "blob:preview"])

====
